---- MODULE Spec2Model ----
(***************************************************************************)
(* Trading-cycle orchestration and ledger accounting of the AI trading     *)
(* simulator: trading_engine.py (TradingEngine), database.py (Database)    *)
(* and the two cycle drivers of app.py (trading_loop, execute_trading).    *)
(*                                                                         *)
(* Money, prices and quantities are exact numbers.  The input sets below   *)
(* are chosen so that every quantity*price/leverage the model computes is  *)
(* a whole number; the rounding of Python floats is not represented.       *)
(***************************************************************************)
EXTENDS Integers, Sequences, FiniteSets, TLC

\* ------------------------------------------------------------------ bounds
\* number of trading cycles the scheduler thread may start when it runs alone
MaxCycles == 1
\* number of trading cycles the scheduler and a request thread may start together
MaxConcCycles == 2
\* number of trades the log may hold when whole cycles are taken as single steps
MaxLedgerTrades == 4
\* number of times the clock of the market data requests is moved on
MaxAdvances == 2
\* half seconds after which no adapter call is started
MaxClock == 2
\* number of trades and of snapshots the store holds when the risk manager is asked
MaxRiskTrades == 6
MaxRiskSnapshots == 2
\* the most account-value snapshots of a history whose drawdown is computed
MaxDrawdownSnapshots == 3
\* the most positions of a portfolio view whose risk is scored, a full book aside
MaxScorePositions == 2
\* the most points of a price history whose indicators are computed
MaxHistoryPoints == 16

\* --------------------------------------------------------- program constants
MIN_LEVERAGE == 1
MAX_LEVERAGE == 20
MAX_QUANTITY == 1000

\* ------------------------------------------------------------------ inputs
ModelIds == {1}
\* config.SUPPORTED_COINS, cut down to two coins
SUPPORTED_COINS == {"BTC", "ETH"}
Prices == {1, 3}
InitialCapitals == {5}
Threads == {"loop", "api"}

\* Python None / a present value
None == << >>
Some(x) == << x >>

\* JSON scalars as the provider can return them: a number n/d, NaN, or a
\* string that is not a number
Num(n, d) == [t |-> "num", n |-> n, d |-> d]
NaN == [t |-> "nan", n |-> 0, d |-> 1]
BadStr == [t |-> "str", n |-> 0, d |-> 1]

\* JSON null in the place of the signal string
JsonNull == "<null>"

Decision(sig, q, l, sl, tp) ==
    [signal |-> sig, quantity |-> q, leverage |-> l, stop_loss |-> sl, take_profit |-> tp]

\* the decisions the provider may return for one coin
DecisionInputs ==
    { Decision("buy_to_enter", Num(2, 1), Num(1, 1), None, Some(2)),
      Decision("SELL_TO_ENTER", Num(2, 1), Num(5, 2), Some(2), None),
      Decision("buy_to_enter", Num(2000, 1), Num(1, 1), None, None),
      Decision("sell_to_enter", NaN, Num(1, 1), None, None),
      Decision("buy_to_enter", BadStr, Num(1, 1), None, None),
      Decision("sell_to_enter", Num(0, 1), Num(1, 1), None, None),
      Decision("sell_to_enter", Num(2, 1), Num(21, 1), None, None),
      Decision("close_position", Num(0, 1), Num(1, 1), None, None),
      Decision("hold", Num(0, 1), Num(1, 1), None, None),
      Decision("moon", Num(0, 1), Num(1, 1), None, None),
      Decision(JsonNull, Num(0, 1), Num(1, 1), None, None) }

\* a decision map in the order of its keys: at most one decision per coin (the
\* coins are interchangeable, so the maps of two coins list BTC first)
DecisionMaps ==
    { << >> } \cup
    { << [coin |-> c, d |-> x] >> : c \in SUPPORTED_COINS, x \in DecisionInputs } \cup
    { << [coin |-> "BTC", d |-> x[1]], [coin |-> "ETH", d |-> x[2]] >> :
        x \in DecisionInputs \X DecisionInputs }

\* a price map: the coins the aggregator has a quote for
MarketStates ==
    UNION { [cs -> Prices] : cs \in SUBSET SUPPORTED_COINS }

VARIABLES
    models,             \* models table: id -> row, for the ids that exist
    portfolios,         \* portfolios table, rows in rowid order
    trades,             \* trades table, rows in rowid order
    account_values,     \* account_values table, rows in rowid order
    conversations,      \* conversations table, rows in rowid order
    dbLocked,           \* a connection left open inside a write transaction
    trading_engines,    \* keys of app.trading_engines, in insertion order
    loopQueue,          \* trading_loop: engines of this tick not yet run
    cyclesStarted,      \* cycles started so far
    pc,                 \* per thread: where its execute_trading_cycle stands
    model,              \* per thread: self.model_id of the engine it runs
    market_state,       \* per thread: coin -> price
    portfolio,          \* per thread: the view of line 37
    exitIdx,            \* per thread: loop index of _check_stop_loss_take_profit
    stop_results,       \* per thread
    decisions,          \* per thread: the provider's decision map
    decIdx,             \* per thread: loop index of _execute_decisions
    execution_results,  \* per thread
    pendingTrade,       \* per thread: the add_trade call that follows a position write
    updated_portfolio,  \* per thread: the view of line 70
    recorded,           \* per thread: snapshots this cycle has appended
    result,             \* per thread: "none", "success" or "failed"
    cache,              \* market_fetcher._cache: cache key -> cached result
    cache_time,         \* market_fetcher._cache_time: cache key -> time of the write
    cache_file,         \* market_data_cache.json: None, or the content last saved
    now,                \* time.time(), in seconds
    advances,           \* times the clock was moved on
    request,            \* the market data call served last
    source_answers,     \* what the adapters called for it returned, in call order
    reply,              \* what it returned to its caller
    returned,           \* every answer a source has given so far, by cache key
    clock,              \* time.time(), in units of 0.5 s
    last_request_time,  \* market_fetcher._last_request_time: source -> time
    last_call,          \* per source: when its latest network call started
    limiter,            \* per thread: where its adapter call stands
    call,               \* per thread: where its market data call stands
    value_by,           \* per cache key: the thread whose call wrote _cache[key]
    time_by,            \* per cache key: the thread whose call wrote _cache_time[key]
    trader,             \* a call of AITrader.make_decision: its arguments and its outcome
    sched,              \* trading_loop: the pass of the while loop under way
    risk,               \* a call of RiskManager.should_pause_trading: its inputs and its result
    indicator,          \* a call of calculate_technical_indicators: its history and its outcome
    stopped             \* the process has exited and taken its daemon thread with it

dbVars == << models, portfolios, trades, account_values, conversations, dbLocked >>
fetcherVars == << cache, cache_time, cache_file, now, advances, request, source_answers,
                  reply, returned >>
limiterVars == << clock, last_request_time, last_call, limiter >>
callVars == << call, value_by, time_by >>
componentVars == << limiterVars, callVars, trader, sched, risk, indicator, stopped >>
appVars == << trading_engines, loopQueue, cyclesStarted, fetcherVars, componentVars >>
cycleVars == << pc, model, market_state, portfolio, exitIdx, stop_results, decisions,
                decIdx, execution_results, pendingTrade, updated_portfolio, recorded, result >>
vars == << dbVars, appVars, cycleVars >>

\* ------------------------------------------------------------- Python values
Truthy(o) == o # None /\ o[1] # 0

CanFloat(x) == x.t # "str"
CanInt(x) == x.t = "num"
\* int(): truncation
PyInt(x) == x.n \div x.d
IsNaN(x) == x.t = "nan"
FloatVal(x) == x.n \div x.d

\* str.lower() on the signal strings the provider returns
Lower(s) ==
    CASE s = "BUY_TO_ENTER" -> "buy_to_enter"
      [] s = "SELL_TO_ENTER" -> "sell_to_enter"
      [] OTHER -> s

\* ------------------------------------------------------------------ Database
PositionPnl(side, entry_price, current_price, quantity) ==
    IF side = "long" THEN (current_price - entry_price) * quantity
    ELSE (entry_price - current_price) * quantity

RowMargin(p) == (p.quantity * p.avg_price) \div p.leverage

RECURSIVE SumPnl(_)
SumPnl(rows) == IF rows = << >> THEN 0 ELSE Head(rows).pnl + SumPnl(Tail(rows))

RECURSIVE SumMargin(_)
SumMargin(rows) == IF rows = << >> THEN 0 ELSE RowMargin(Head(rows)) + SumMargin(Tail(rows))

RECURSIVE SumNotional(_)
SumNotional(rows) ==
    IF rows = << >> THEN 0
    ELSE Head(rows).quantity * Head(rows).avg_price + SumNotional(Tail(rows))

OfModel(rows, m) == SelectSeq(rows, LAMBDA r : r.model_id = m)

\* an annotation that values a position without a quote at its entry price
Annotated_at_entry(p, current_prices) ==
    [coin |-> p.coin, side |-> p.side, quantity |-> p.quantity, avg_price |-> p.avg_price,
     leverage |-> p.leverage, stop_loss |-> p.stop_loss, take_profit |-> p.take_profit,
     current_price |-> IF p.coin \in DOMAIN current_prices
                       THEN Some(current_prices[p.coin]) ELSE Some(p.avg_price),
     pnl |-> IF p.coin \in DOMAIN current_prices
             THEN PositionPnl(p.side, p.avg_price, current_prices[p.coin], p.quantity)
             ELSE 0]

\* a position row with the current_price and pnl that get_portfolio adds to it
Annotated(p, current_prices) ==
    [coin |-> p.coin, side |-> p.side, quantity |-> p.quantity, avg_price |-> p.avg_price,
     leverage |-> p.leverage, stop_loss |-> p.stop_loss, take_profit |-> p.take_profit,
     current_price |-> IF p.coin \in DOMAIN current_prices
                       THEN Some(current_prices[p.coin]) ELSE None,
     pnl |-> IF p.coin \in DOMAIN current_prices
             THEN PositionPnl(p.side, p.avg_price, current_prices[p.coin], p.quantity)
             ELSE 0]

\* cash that leaves the realized pnl out
ViewCashWithoutPnl(initial_capital, realized_pnl, margin_used) ==
    initial_capital - margin_used

\* line 280: cash = initial_capital + realized_pnl - margin_used
ViewCash(initial_capital, realized_pnl, margin_used) ==
    initial_capital + realized_pnl - margin_used

\* Database.get_portfolio on the tables tm (models), tp (portfolios), tt (trades),
\* for a model that exists (it raises for one that does not)
get_portfolio(tm, tp, tt, m, current_prices) ==
    LET rows == SelectSeq(tp, LAMBDA r : r.model_id = m /\ r.quantity > 0)
        positions == [i \in 1..Len(rows) |-> Annotated(rows[i], current_prices)]
        initial_capital == tm[m].initial_capital
        realized_pnl == SumPnl(OfModel(tt, m))
        margin_used == SumMargin(rows)
        unrealized_pnl == SumPnl(positions)
    IN [model_id |-> m,
        cash |-> ViewCash(initial_capital, realized_pnl, margin_used),
        positions |-> positions,
        positions_value |-> SumNotional(rows),
        margin_used |-> margin_used,
        total_value |-> initial_capital + realized_pnl + unrealized_pnl,
        realized_pnl |-> realized_pnl,
        unrealized_pnl |-> unrealized_pnl]

NoPortfolio == [model_id |-> 0, cash |-> 0, positions |-> << >>, positions_value |-> 0,
                margin_used |-> 0, total_value |-> 0, realized_pnl |-> 0, unrealized_pnl |-> 0]

PositionRow(m, coin, quantity, avg_price, leverage, side, stop_loss, take_profit) ==
    [model_id |-> m, coin |-> coin, quantity |-> quantity, avg_price |-> avg_price,
     leverage |-> leverage, side |-> side, stop_loss |-> stop_loss, take_profit |-> take_profit]

SameKey(r, row) == r.model_id = row.model_id /\ r.coin = row.coin /\ r.side = row.side

\* an upsert that adds the quantity to the stored one and averages the price
update_position_blended(table, row) ==
    IF \E i \in 1..Len(table) : SameKey(table[i], row)
    THEN [i \in 1..Len(table) |->
            IF SameKey(table[i], row)
            THEN [row EXCEPT !.quantity = table[i].quantity + row.quantity,
                             !.avg_price = (table[i].quantity * table[i].avg_price
                                            + row.quantity * row.avg_price)
                                           \div (table[i].quantity + row.quantity)]
            ELSE table[i]]
    ELSE Append(table, row)

\* Database.update_position: INSERT ... ON CONFLICT(model_id, coin, side) DO UPDATE
update_position(table, row) ==
    IF \E i \in 1..Len(table) : SameKey(table[i], row)
    THEN [i \in 1..Len(table) |-> IF SameKey(table[i], row) THEN row ELSE table[i]]
    ELSE Append(table, row)

\* a close that keeps the row and sets its quantity to 0
close_position_soft(table, m, coin, side) ==
    [i \in 1..Len(table) |->
        IF table[i].model_id = m /\ table[i].coin = coin /\ table[i].side = side
        THEN [table[i] EXCEPT !.quantity = 0]
        ELSE table[i]]

\* a close that leaves the side to its default 'long'
close_position_long_only(table, m, coin, side) ==
    SelectSeq(table, LAMBDA r : ~(r.model_id = m /\ r.coin = coin /\ r.side = "long"))

\* a close whose DELETE leaves model_id out of its WHERE
close_position_any_model(table, m, coin, side) ==
    SelectSeq(table, LAMBDA r : ~(r.coin = coin /\ r.side = side))

\* Database.close_position: DELETE ... WHERE model_id, coin, side
close_position(table, m, coin, side) ==
    SelectSeq(table, LAMBDA r : ~(r.model_id = m /\ r.coin = coin /\ r.side = side))

TradeRow(m, coin, signal, quantity, price, leverage, side, pnl) ==
    [model_id |-> m, coin |-> coin, signal |-> signal, quantity |-> quantity,
     price |-> price, leverage |-> leverage, side |-> side, pnl |-> pnl]

NoTrade == TradeRow(0, "", "", 0, 0, 0, "", 0)

\* a trade that is put in front of the log
add_trade_in_front(table, row) == << row >> \o table

\* Database.add_trade
add_trade(table, row) == Append(table, row)

\* a snapshot that is written twice
record_account_value_twice(table, m, view) ==
    LET row == [model_id |-> m, total_value |-> view.total_value,
                cash |-> view.cash, positions_value |-> view.positions_value]
    IN Append(Append(table, row), row)

\* Database.record_account_value
record_account_value(table, m, view) ==
    Append(table, [model_id |-> m, total_value |-> view.total_value,
                   cash |-> view.cash, positions_value |-> view.positions_value])

\* --------------------------------------------------------- MarketDataFetcher
MARKET_API_CACHE_DURATION == 5
\* age below which get_historical_prices answers from the cache: 6 hours
HistoricalCacheAge == 21600
\* age below which a cached result is used when every source failed: 30 days
StaleCacheAge == 2592000

\* the adapters in the order get_current_prices / get_historical_prices try them
PriceSources == << "binance", "coingecko", "coincap", "cryptocompare" >>
HistorySources == << "binance", "coingecko", "coincap" >>

\* the coin lists get_current_prices is called with
PriceRequests == { << "BTC", "ETH" >>, << "ETH", "BTC" >> }

\* the (coin, days) pairs get_historical_prices is called with
HistoryRequests == { [coin |-> "BTC", days |-> 30] }

\* the steps the clock is moved on by: 10 days, 30 days
Delays == { 10 * 86400, StaleCacheAge }

Range(s) == { s[i] : i \in 1..Len(s) }

\* the order of the coin names as strings
CoinRank(c) == IF c = "BTC" THEN 1 ELSE 2

RECURSIVE InsertSorted(_, _)
InsertSorted(c, s) ==
    IF s = << >> THEN << c >>
    ELSE IF CoinRank(c) <= CoinRank(Head(s)) THEN << c >> \o s
    ELSE << Head(s) >> \o InsertSorted(c, Tail(s))

\* sorted(coins)
RECURSIVE sorted(_)
sorted(coins) == IF coins = << >> THEN << >> ELSE InsertSorted(Head(coins), sorted(Tail(coins)))

\* str(days) of the f-string
DaysText(days) == IF days = 30 THEN "30" ELSE "7"

\* a cache key that keeps the order in which the caller listed the coins
PricesKey_unsorted(coins) == << "prices" >> \o coins

\* 'prices_' + '_'.join(sorted(coins)), as the list of its parts
PricesKey(coins) == << "prices" >> \o sorted(coins)

\* f'historical_{coin}_{days}', as the list of its parts
HistoricalKey(coin, days) == << "historical", coin, DaysText(days) >>

\* what a price adapter may return for coins: None, quotes for the first coin
\* only, or quotes for every coin (the same price for each)
PriceAnswers(coins) ==
    {None} \cup { [c \in {coins[1]} |-> 1] } \cup { [c \in Range(coins) |-> q] : q \in Prices }

Point(t, p) == [timestamp |-> t, price |-> p]

\* what a history adapter may return: None, or a series of one or two points
HistoryAnswers == { None, << Point(1, 1) >>, << Point(1, 1), Point(2, 3) >> }

\* a test that takes any answer that holds a quote
PricesAccepted_any(prices, coins) == prices # None

\* `if prices and len(prices) == len(coins):`
PricesAccepted(prices, coins) == prices # None /\ Cardinality(DOMAIN prices) = Len(coins)

\* `if prices:`
HistoryAccepted(prices) == prices # None /\ Len(prices) > 0

\* the first answer of run, from i on, that get_current_prices takes, or 0
RECURSIVE FirstPrices(_, _, _)
FirstPrices(run, i, coins) ==
    IF i > Len(run) THEN 0
    ELSE IF PricesAccepted(run[i], coins) THEN i
    ELSE FirstPrices(run, i + 1, coins)

\* the first answer of run, from i on, that get_historical_prices takes, or 0
RECURSIVE FirstHistorical(_, _)
FirstHistorical(run, i) ==
    IF i > Len(run) THEN 0
    ELSE IF HistoryAccepted(run[i]) THEN i
    ELSE FirstHistorical(run, i + 1)

\* the answers of the adapters a call of get_current_prices makes: it calls the
\* next adapter only after it did not take the answer of the one before
PriceRuns(coins) ==
    { run \in UNION { [1..k -> PriceAnswers(coins)] : k \in 1..Len(PriceSources) } :
        /\ \A i \in 1..(Len(run) - 1) : ~PricesAccepted(run[i], coins)
        /\ Len(run) < Len(PriceSources) => PricesAccepted(run[Len(run)], coins) }

\* the answers of the adapters a call of get_historical_prices makes
HistoryRuns ==
    { run \in UNION { [1..k -> HistoryAnswers] : k \in 1..Len(HistorySources) } :
        /\ \A i \in 1..(Len(run) - 1) : ~HistoryAccepted(run[i])
        /\ Len(run) < Len(HistorySources) => HistoryAccepted(run[Len(run)]) }

\* d[key] = value
Put(d, key, value) == [k \in DOMAIN d \cup {key} |-> IF k = key THEN value ELSE d[k]]

\* a fallback that takes a cached result of any age
Fallback_any_age(cache_key) ==
    IF cache_key \in DOMAIN cache THEN cache[cache_key] ELSE << >>

\* the end of both calls: every source failed; the cached result if it is
\* younger than 30 days, else the empty result
Fallback(cache_key) ==
    IF cache_key \in DOMAIN cache /\ now - cache_time[cache_key] < StaleCacheAge
    THEN cache[cache_key]
    ELSE << >>

\* the answers of run that hold data, as entries of `returned`
Given(cache_key, run) ==
    { [key |-> cache_key, value |-> run[i]] : i \in { j \in 1..Len(run) : run[j] # None } }

NoRequest == [kind |-> "none", coins |-> << >>, days |-> 0]

\* MarketDataFetcher.get_current_prices
get_current_prices(coins) ==
    LET cache_key == PricesKey(coins)
    IN /\ request = NoRequest
       /\ request' = [kind |-> "prices", coins |-> coins, days |-> 0]
       /\ IF /\ cache_key \in DOMAIN cache
             /\ now - cache_time[cache_key] < MARKET_API_CACHE_DURATION
          THEN /\ reply' = cache[cache_key]
               /\ source_answers' = << >>
               /\ UNCHANGED << cache, cache_time, returned >>
          ELSE \E run \in PriceRuns(coins) :
                  LET i == FirstPrices(run, 1, coins)
                  IN /\ source_answers' = run
                     /\ returned' = returned \cup Given(cache_key, run)
                     /\ IF i # 0
                        THEN /\ cache' = Put(cache, cache_key, run[i])
                             /\ cache_time' = Put(cache_time, cache_key, now)
                             /\ reply' = run[i]
                        ELSE /\ reply' = Fallback(cache_key)
                             /\ UNCHANGED << cache, cache_time >>
       /\ UNCHANGED << cache_file, now, advances, dbVars, trading_engines, loopQueue,
                       cyclesStarted, cycleVars, componentVars >>

\* _save_persistent_cache: json.dump of both dicts
save_persistent_cache(c, t) == Some([cache |-> c, cache_time |-> t])

\* MarketDataFetcher.get_historical_prices
get_historical_prices(coin, days) ==
    LET cache_key == HistoricalKey(coin, days)
    IN /\ request = NoRequest
       /\ request' = [kind |-> "historical", coins |-> << coin >>, days |-> days]
       /\ IF /\ cache_key \in DOMAIN cache
             /\ now - cache_time[cache_key] < HistoricalCacheAge
          THEN /\ reply' = cache[cache_key]
               /\ source_answers' = << >>
               /\ UNCHANGED << cache, cache_time, cache_file, returned >>
          ELSE \E run \in HistoryRuns :
                  LET i == FirstHistorical(run, 1)
                  IN /\ source_answers' = run
                     /\ returned' = returned \cup Given(cache_key, run)
                     /\ IF i # 0
                        THEN /\ cache' = Put(cache, cache_key, run[i])
                             /\ cache_time' = Put(cache_time, cache_key, now)
                             /\ cache_file' = save_persistent_cache(cache', cache_time')
                             /\ reply' = run[i]
                        ELSE /\ reply' = Fallback(cache_key)
                             /\ UNCHANGED << cache, cache_time, cache_file >>
       /\ UNCHANGED << now, advances, dbVars, trading_engines, loopQueue, cyclesStarted,
                       cycleVars, componentVars >>

\* a start that fills the cache with default prices when there is no file
load_persistent_cache_default(file) ==
    IF file = None
    THEN [cache |-> [k \in { PricesKey(<< "BTC", "ETH" >>) } |->
                        [c \in {"BTC", "ETH"} |-> 3]],
          cache_time |-> [k \in { PricesKey(<< "BTC", "ETH" >>) } |-> now]]
    ELSE file[1]

\* _load_persistent_cache: both dicts as the file holds them, empty without a file
load_persistent_cache(file) ==
    IF file = None THEN [cache |-> << >>, cache_time |-> << >>] ELSE file[1]

\* the process is stopped and started again: MarketDataFetcher.__init__
Restart ==
    /\ request = NoRequest
    /\ cache' = load_persistent_cache(cache_file).cache
    /\ cache_time' = load_persistent_cache(cache_file).cache_time
    /\ UNCHANGED << cache_file, now, advances, request, source_answers, reply, returned,
                    dbVars, trading_engines, loopQueue, cyclesStarted, cycleVars, componentVars >>

\* time passes between two calls
Advance(d) ==
    /\ request = NoRequest
    /\ advances < MaxAdvances
    /\ advances' = advances + 1
    /\ now' = now + d
    /\ UNCHANGED << cache, cache_time, cache_file, request, source_answers, reply, returned,
                    dbVars, trading_engines, loopQueue, cyclesStarted, cycleVars, componentVars >>

\* the caller has taken the reply of the call
ReplyTaken ==
    /\ request # NoRequest
    /\ request' = NoRequest
    /\ source_answers' = << >>
    /\ reply' = << >>
    /\ UNCHANGED << cache, cache_time, cache_file, now, advances, returned, dbVars,
                    trading_engines, loopQueue, cyclesStarted, cycleVars, componentVars >>

\* market_fetcher = MarketDataFetcher() with no cache file
InitFetcher ==
    /\ cache = << >>
    /\ cache_time = << >>
    /\ cache_file = None
    /\ now = 0
    /\ advances = 0
    /\ request = NoRequest
    /\ source_answers = << >>
    /\ reply = << >>
    /\ returned = {}

\* ---------------------------------------------- MarketDataFetcher._rate_limit
\* self._min_request_interval, in units of 0.5 s
min_request_interval ==
    [binance |-> 1, coingecko |-> 20, coincap |-> 4, cryptocompare |-> 4]

\* the adapters of the fetcher: the source each one calls, and what it fetches
Adapters ==
    { [source |-> s, kind |-> "prices"] : s \in DOMAIN min_request_interval }
        \cup { [source |-> s, kind |-> "historical"] : s \in {"binance", "coingecko", "coincap"} }

\* the adapter starts with self._rate_limit(source)
CallsRateLimit(a) == ~(a.source = "binance" /\ a.kind = "historical")

\* requests.get calls of one adapter call: _get_prices_from_coincap makes one per
\* coin, every other adapter makes one
NetworkCalls(a, coins) ==
    IF a.source = "coincap" /\ a.kind = "prices" THEN Len(coins) ELSE 1

Idle == [pc |-> "idle", adapter |-> << >>, wake |-> 0, left |-> 0, checked |-> FALSE]

\* _rate_limit, lines 56-62: now, interval, elapsed and the decision to sleep
RateLimitCheck(th, a, coins) ==
    LET source == a.source
        interval == min_request_interval[source]
        sleeps == /\ source \in DOMAIN last_request_time
                  /\ clock - last_request_time[source] < interval
    IN limiter' = [limiter EXCEPT ![th] =
                      [pc |-> IF sleeps THEN "sleep" ELSE "request",
                       adapter |-> << a >>,
                       wake |-> IF sleeps THEN last_request_time[source] + interval
                                ELSE clock,
                       left |-> NetworkCalls(a, coins),
                       checked |-> TRUE]]

\* a thread enters one adapter: the rate-limit check where the adapter has one
EnterAdapter(th, a, coins) ==
    /\ limiter[th].pc = "idle"
    /\ clock < MaxClock
    /\ IF CallsRateLimit(a)
       THEN RateLimitCheck(th, a, coins)
       ELSE limiter' = [limiter EXCEPT ![th] =
                           [pc |-> "request", adapter |-> << a >>, wake |-> clock,
                            left |-> NetworkCalls(a, coins), checked |-> FALSE]]
    /\ UNCHANGED << clock, last_request_time, last_call >>

\* _rate_limit, line 63: time.sleep(sleep_time) returns when the time is over
Sleep(th) ==
    /\ limiter[th].pc = "sleep"
    /\ clock' = IF clock < limiter[th].wake THEN limiter[th].wake ELSE clock
    /\ limiter' = [limiter EXCEPT ![th].pc = "request"]
    /\ UNCHANGED << last_request_time, last_call >>

\* _rate_limit, line 66, and the requests.get that follows it; for CoinCap prices,
\* the requests.get of the next coin
NetworkCall(th) ==
    LET l == limiter[th]
        source == l.adapter[1].source
    IN /\ l.pc = "request"
       /\ last_request_time' = IF l.checked THEN Put(last_request_time, source, clock)
                               ELSE last_request_time
       /\ last_call' = Put(last_call, source, [time |-> clock, checked |-> l.checked])
       /\ limiter' = [limiter EXCEPT ![th] =
                         IF l.left = 1 THEN Idle
                         ELSE [l EXCEPT !.left = l.left - 1, !.checked = FALSE]]
       /\ UNCHANGED clock

\* half a second passes
Tick ==
    /\ clock < MaxClock
    /\ clock' = clock + 1
    /\ UNCHANGED << last_request_time, last_call, limiter >>

InitLimiter ==
    /\ clock = 0
    /\ last_request_time = << >>
    /\ last_call = << >>
    /\ limiter = [th \in Threads |-> Idle]


\* the cache key of a request
KeyOf(r) ==
    IF r.kind = "prices" THEN PricesKey(r.coins) ELSE HistoricalKey(r.coins[1], r.days)

\* the age below which a request is answered from the cache
FreshAge(r) == IF r.kind = "prices" THEN MARKET_API_CACHE_DURATION ELSE HistoricalCacheAge


\* ------------------------- get_current_prices / get_historical_prices by steps
\* the time that passes between two steps of the threads, if any
CallDelay == 10 * 86400

\* the calls the threads make
CallRequests ==
    { [kind |-> "prices", coins |-> << "BTC", "ETH" >>, days |-> 0] }
        \cup { [kind |-> "historical", coins |-> << h.coin >>, days |-> h.days] :
                 h \in HistoryRequests }

\* the answers of a source that the call takes
AcceptedAnswers(r) ==
    IF r.kind = "prices"
    THEN { a \in PriceAnswers(r.coins) : PricesAccepted(a, r.coins) }
    ELSE { a \in HistoryAnswers : HistoryAccepted(a) }

NoCall == [pc |-> "idle", request |-> NoRequest, prices |-> None]

CallRest ==
    UNCHANGED << dbVars, trading_engines, loopQueue, cyclesStarted, cycleVars, limiterVars,
                 trader, advances, request, source_answers, reply, returned, sched, risk,
                 indicator,
                 stopped >>

\* lines 97-100 and 310-314: the cache key and the test for a fresh entry;
\* self._cache_time[cache_key] raises KeyError for a key it does not hold
CheckCache(th, r) ==
    LET cache_key == KeyOf(r)
    IN /\ call[th].pc = "idle"
       /\ call' = [call EXCEPT ![th] =
              IF cache_key \notin DOMAIN cache
              THEN [pc |-> "sources", request |-> r, prices |-> None]
              ELSE IF cache_key \notin DOMAIN cache_time
              THEN [pc |-> "raised", request |-> r, prices |-> None]
              ELSE IF now - cache_time[cache_key] < FreshAge(r)
              THEN [pc |-> "returned", request |-> r, prices |-> cache[cache_key]]
              ELSE [pc |-> "sources", request |-> r, prices |-> None]]
       /\ UNCHANGED << cache, cache_time, cache_file, now, value_by, time_by >>
       /\ CallRest

\* the adapters are called in their order and one of them gives an answer that
\* the call takes
SourceAnswers(th) ==
    /\ call[th].pc = "sources"
    /\ \E prices \in AcceptedAnswers(call[th].request) :
          call' = [call EXCEPT ![th].pc = "store", ![th].prices = prices]
    /\ UNCHANGED << cache, cache_time, cache_file, now, value_by, time_by >>
    /\ CallRest

\* every adapter returns None: lines 133-143 and 340-350, where
\* self._cache_time[cache_key] raises KeyError for a key it does not hold
SourcesFail(th) ==
    LET cache_key == KeyOf(call[th].request)
    IN /\ call[th].pc = "sources"
       /\ call' = [call EXCEPT ![th] =
              IF cache_key \in DOMAIN cache /\ cache_key \notin DOMAIN cache_time
              THEN [@ EXCEPT !.pc = "raised"]
              ELSE [@ EXCEPT !.pc = "returned", !.prices = Fallback(cache_key)]]
       /\ UNCHANGED << cache, cache_time, cache_file, now, value_by, time_by >>
       /\ CallRest

\* self._cache[cache_key] = prices
StoreValue(th) ==
    /\ call[th].pc = "store"
    /\ cache' = Put(cache, KeyOf(call[th].request), call[th].prices)
    /\ value_by' = Put(value_by, KeyOf(call[th].request), th)
    /\ call' = [call EXCEPT ![th].pc = "stamp"]
    /\ UNCHANGED << cache_time, cache_file, now, time_by >>
    /\ CallRest

\* self._cache_time[cache_key] = time.time(); get_historical_prices then saves
\* both dicts to the file
StoreTime(th) ==
    /\ call[th].pc = "stamp"
    /\ cache_time' = Put(cache_time, KeyOf(call[th].request), now)
    /\ time_by' = Put(time_by, KeyOf(call[th].request), th)
    /\ cache_file' = IF call[th].request.kind = "historical"
                     THEN save_persistent_cache(cache, cache_time')
                     ELSE cache_file
    /\ call' = [call EXCEPT ![th].pc = "returned"]
    /\ UNCHANGED << cache, now, value_by >>
    /\ CallRest

\* the call is over: its caller has the result, or the exception
CallOver(th) ==
    /\ call[th].pc \in {"returned", "raised"}
    /\ call' = [call EXCEPT ![th] = NoCall]
    /\ UNCHANGED << cache, cache_time, cache_file, now, value_by, time_by >>
    /\ CallRest

InitCalls ==
    /\ call = [th \in Threads |-> NoCall]
    /\ value_by = << >>
    /\ time_by = << >>

\* ------------------------------------------------------- AITrader.make_decision
max_retries == 3

\* what one attempt gets from _call_llm: an exception, or the text of the answer
LLMError == [raises |-> TRUE, text |-> ""]
LLMText(text) == [raises |-> FALSE, text |-> text]

\* answers of the model: nothing, text without a decision, a decision as JSON
Responses == { "", "I would wait.", "{\"BTC\": {\"signal\": \"hold\"}}" }

LLMAnswers == { LLMError } \cup { LLMText(text) : text \in Responses }

\* _parse_response: the decision map of a text, the empty map when it holds none
parse_response(response) ==
    IF response = "{\"BTC\": {\"signal\": \"hold\"}}"
    THEN [coin \in {"BTC"} |-> [signal |-> "hold"]]
    ELSE << >>

\* the market state a cycle hands to the provider: per coin the price and the
\* 24 h change as the source gave them, the change possibly null
TraderMarkets ==
    { [coin \in {"BTC"} |-> [price |-> 1, change_24h |-> change]] :
        change \in { Some(0), None } }

\* _build_prompt formats price and change of every coin as numbers
build_prompt_raises(market) ==
    \E coin \in DOMAIN market : market[coin].change_24h = None

Returned(ds, raw, n) ==
    [raised |-> FALSE, decisions |-> ds, raw_response |-> raw, attempts |-> n]

\* the loop of make_decision from attempt on (attempt counts from 0, as range does)
RECURSIVE Attempts(_, _, _)
Attempts(answers, attempt, last_raw_response) ==
    IF attempt >= max_retries
    THEN Returned(<< >>, last_raw_response, attempt)
    ELSE LET answer == answers[attempt + 1]
         IN IF answer.raises
            THEN IF attempt = max_retries - 1
                 THEN Returned(<< >>, last_raw_response, attempt + 1)
                 ELSE Attempts(answers, attempt + 1, last_raw_response)
            ELSE IF parse_response(answer.text) # << >>
            THEN Returned(parse_response(answer.text), answer.text, attempt + 1)
            ELSE IF attempt = max_retries - 1
            THEN Returned(<< >>, answer.text, attempt + 1)
            ELSE Attempts(answers, attempt + 1, answer.text)

\* AITrader.make_decision: the prompt is built before the loop of attempts
make_decision(market, answers) ==
    IF build_prompt_raises(market)
    THEN [raised |-> TRUE, decisions |-> << >>, raw_response |-> "", attempts |-> 0]
    ELSE Attempts(answers, 0, "")

\* the arguments of a call and what the model will answer to each attempt
TraderInputs ==
    { [market_state |-> market, answers |-> answers, result |-> None] :
        market \in TraderMarkets, answers \in [1..max_retries -> LLMAnswers] }

\* what a call of a service that keeps no state leaves alone
PureRest ==
    UNCHANGED << dbVars, trading_engines, loopQueue, cyclesStarted, fetcherVars,
                 limiterVars, callVars, cycleVars, sched,
                 indicator,
                 stopped >>

\* one call of make_decision
Decide ==
    /\ trader.result = None
    /\ trader' = [trader EXCEPT
                     !.result = Some(make_decision(trader.market_state, trader.answers))]
    /\ UNCHANGED risk
    /\ PureRest

\* no call of make_decision under way
InitTrader == trader = [market_state |-> << >>, answers |-> << >>, result |-> None]

\* ------------------------------------------- RiskManager.should_pause_trading
\* a fraction n/d with d > 0
Ratio(n, d) == [n |-> n, d |-> d]
Greater(a, b) == a.n * b.d > b.n * a.d

\* config.MAX_DRAWDOWN_CRITICAL = 0.25
MAX_DRAWDOWN_CRITICAL == Ratio(1, 4)
\* the share of total_value below which cash is short: 0.1
MinCashShare == Ratio(1, 10)
\* get_account_value_history(model_id, limit=1000)
DrawdownHistoryLimit == 1000
\* get_trades(model_id, limit=5)
LosingStreak == 5

\* rows in rowid order with r inserted: r comes after the rows whose timestamp is
\* not below its own
RECURSIVE InsertByTimestamp(_, _)
InsertByTimestamp(rows, r) ==
    IF rows = << >> THEN << r >>
    ELSE IF Head(rows).timestamp >= r.timestamp
         THEN << Head(rows) >> \o InsertByTimestamp(Tail(rows), r)
         ELSE << r >> \o rows

\* ORDER BY timestamp DESC over rows stored in rowid order: SQLite returns rows
\* of one timestamp in rowid order
RECURSIVE OrderByTimestampDesc(_)
OrderByTimestampDesc(rows) ==
    IF rows = << >> THEN << >>
    ELSE InsertByTimestamp(OrderByTimestampDesc(SubSeq(rows, 1, Len(rows) - 1)),
                           rows[Len(rows)])

\* LIMIT n
Limit(rows, n) == SubSeq(rows, 1, IF Len(rows) < n THEN Len(rows) ELSE n)

\* Database.get_trades / get_account_value_history for the rows of one model
get_trades(rows, n) == Limit(OrderByTimestampDesc(rows), n)
get_account_value_history(rows, n) == Limit(OrderByTimestampDesc(rows), n)

reversed(rows) == [i \in 1..Len(rows) |-> rows[Len(rows) + 1 - i]]

\* the loop of _calculate_max_drawdown over values from index i on
RECURSIVE DrawdownFrom(_, _, _, _)
DrawdownFrom(values, i, peak, max_drawdown) ==
    IF i > Len(values) THEN max_drawdown
    ELSE LET p == IF values[i] > peak THEN values[i] ELSE peak
             drawdown == IF p > 0 THEN Ratio(p - values[i], p) ELSE Ratio(0, 1)
         IN DrawdownFrom(values, i + 1, p,
                         IF Greater(drawdown, max_drawdown) THEN drawdown ELSE max_drawdown)

\* the largest fall from a peak over values in the order given
MaxDrawdown(values) ==
    IF values = << >> THEN Ratio(0, 1) ELSE DrawdownFrom(values, 1, values[1], Ratio(0, 1))

\* RiskManager._calculate_max_drawdown
calculate_max_drawdown(snapshots) ==
    LET history == get_account_value_history(snapshots, DrawdownHistoryLimit)
    IN MaxDrawdown([i \in 1..Len(history) |-> reversed(history)[i].total_value])

Pause(reason) == [should_pause |-> reason # "ok", reason |-> reason]

\* RiskManager.should_pause_trading
should_pause_trading(snapshots, rows, pf) ==
    LET recent_trades == get_trades(rows, LosingStreak)
    IN IF Greater(calculate_max_drawdown(snapshots), MAX_DRAWDOWN_CRITICAL)
       THEN Pause("drawdown")
       ELSE IF /\ Len(recent_trades) >= LosingStreak
               /\ \A i \in 1..LosingStreak : recent_trades[i].pnl < 0
       THEN Pause("losing_streak")
       ELSE IF pf.cash * MinCashShare.d < pf.total_value * MinCashShare.n
       THEN Pause("low_cash")
       ELSE Pause("ok")

\* timestamps of n rows written one after another: CURRENT_TIMESTAMP counts
\* seconds, so rows written within one second share theirs
Timestamps(n) ==
    { ts \in [1..n -> 1..2] : \A i \in 1..(n - 1) : ts[i] <= ts[i + 1] }

RiskTrades ==
    UNION { { [i \in 1..n |-> [pnl |-> pnls[i], timestamp |-> ts[i]]] :
                pnls \in [1..n -> {-1, 1}], ts \in Timestamps(n) } : n \in 0..MaxRiskTrades }

RiskSnapshots ==
    UNION { { [i \in 1..n |-> [total_value |-> vs[i], timestamp |-> ts[i]]] :
                vs \in [1..n -> {2, 3, 4}], ts \in Timestamps(n) } : n \in 0..MaxRiskSnapshots }

RiskPortfolios == { [cash |-> cash, total_value |-> 10] : cash \in {0, 1, 5} }

\* one call of should_pause_trading
ShouldPause ==
    /\ risk.result = None
    /\ risk' = [risk EXCEPT
                   !.result = Some(should_pause_trading(risk.snapshots, risk.rows, risk.pf))]
    /\ UNCHANGED trader
    /\ PureRest

\* account-value histories of one model: total_value halves or doubles
DrawdownSnapshots ==
    UNION { { [i \in 1..n |-> [total_value |-> vs[i], timestamp |-> ts[i]]] :
                vs \in [1..n -> {50, 100, 200}], ts \in Timestamps(n) } :
            n \in 0..MaxDrawdownSnapshots }

\* one call of _calculate_max_drawdown
CalculateMaxDrawdown ==
    /\ risk.result = None
    /\ risk' = [risk EXCEPT !.result = Some(calculate_max_drawdown(risk.snapshots))]
    /\ UNCHANGED trader
    /\ PureRest

\* ------------------------------------------- RiskManager.calculate_risk_score
\* config.MAX_POSITION_RATIO = 0.30, config.MAX_DRAWDOWN_WARNING = 0.15
MAX_POSITION_RATIO == Ratio(3, 10)
MAX_DRAWDOWN_WARNING == Ratio(3, 20)

RECURSIVE SumLeverage(_)
SumLeverage(positions) ==
    IF positions = << >> THEN 0 ELSE Head(positions).leverage + SumLeverage(Tail(positions))

\* the loop over the positions with its break: some position takes more than
\* MAX_POSITION_RATIO of total_value
Concentrated(pf) ==
    \E i \in 1..Len(pf.positions) :
        LET position_value == pf.positions[i].quantity * pf.positions[i].avg_price
            ratio == IF pf.total_value > 0 THEN Ratio(position_value, pf.total_value)
                     ELSE Ratio(0, 1)
        IN Greater(ratio, MAX_POSITION_RATIO)

\* the rules in the order the code tries them, each with its points
RiskRules(pf, drawdown) ==
    << [rule |-> "concentration", points |-> 30,
        hit |-> pf.positions # << >> /\ Concentrated(pf)],
       [rule |-> "leverage", points |-> 25,
        hit |-> /\ pf.positions # << >>
                /\ SumLeverage(pf.positions) > 10 * Len(pf.positions)],
       [rule |-> "count", points |-> 15, hit |-> Len(pf.positions) > 5],
       [rule |-> "loss", points |-> 20,
        hit |-> /\ pf.unrealized_pnl < 0
                /\ LET loss_ratio == IF pf.total_value > 0
                                     THEN Ratio(-pf.unrealized_pnl, pf.total_value)
                                     ELSE Ratio(0, 1)
                   IN Greater(loss_ratio, Ratio(1, 10))],
       [rule |-> "drawdown", points |-> 30, hit |-> Greater(drawdown, MAX_DRAWDOWN_WARNING)] >>

\* score and warnings after the first n rules
RECURSIVE Scored(_, _)
Scored(rules, n) ==
    IF n = 0 THEN [score |-> 0, warnings |-> << >>]
    ELSE LET before == Scored(rules, n - 1)
         IN IF rules[n].hit
            THEN [score |-> before.score + rules[n].points,
                  warnings |-> Append(before.warnings, rules[n].rule)]
            ELSE before

\* RiskManager.calculate_risk_score
calculate_risk_score(snapshots, pf) ==
    LET drawdown == calculate_max_drawdown(snapshots)
        rules == RiskRules(pf, drawdown)
        total == Scored(rules, Len(rules))
        level == IF total.score >= 70 THEN "high"
                 ELSE IF total.score >= 40 THEN "medium" ELSE "low"
    IN [score |-> IF total.score < 100 THEN total.score ELSE 100,
        level |-> level,
        warnings |-> total.warnings,
        drawdown |-> drawdown]

\* positions as the view lists them: a small one, one of exactly 30 % of a total
\* value of 100, a large one
ScorePositionKinds ==
    { [quantity |-> 1, avg_price |-> 10, leverage |-> 1],
      [quantity |-> 3, avg_price |-> 10, leverage |-> 10],
      [quantity |-> 4, avg_price |-> 10, leverage |-> 20] }

\* books of up to MaxScorePositions positions, and full books of six alike
ScorePositions ==
    UNION { [1..n -> ScorePositionKinds] : n \in 0..MaxScorePositions }
        \cup { [i \in 1..6 |-> k] : k \in ScorePositionKinds }

\* views as get_portfolio builds them: without positions there is no unrealized
\* pnl; losses may take total_value to zero and below
ScorePortfolios ==
    { pf \in { [positions |-> ps, total_value |-> tv, unrealized_pnl |-> pnl] :
                 ps \in ScorePositions, tv \in {-100, 0, 100}, pnl \in {-20, -10, 0} } :
        pf.positions = << >> => pf.unrealized_pnl = 0 }

\* one call of calculate_risk_score
CalculateRiskScore ==
    /\ risk.result = None
    /\ risk' = [risk EXCEPT !.result = Some(calculate_risk_score(risk.snapshots, risk.pf))]
    /\ UNCHANGED trader
    /\ PureRest

\* no call of should_pause_trading under way
InitRisk == risk = [snapshots |-> << >>, rows |-> << >>, pf |-> << >>, result |-> None]

\* the services that keep no state: none is being called
InitPure == InitTrader /\ InitRisk

\* ------------------------- MarketDataFetcher.calculate_technical_indicators
\* the fewest points an indicator set is computed from, and the RSI window
MinHistoryPoints == 14
RsiWindow == 14

\* arithmetic on fractions
Plus(a, b) == Ratio(a.n * b.d + b.n * a.d, a.d * b.d)
Minus(a, b) == Ratio(a.n * b.d - b.n * a.d, a.d * b.d)
Over(a, b) == Ratio(a.n * b.d, a.d * b.n)

RECURSIVE sum(_)
sum(xs) == IF xs = << >> THEN 0 ELSE Head(xs) + sum(Tail(xs))

\* xs[-n:]
LastOf(xs, n) == SubSeq(xs, IF Len(xs) > n THEN Len(xs) - n + 1 ELSE 1, Len(xs))

\* rsi_14 with the gains and losses of the whole history averaged
rsi_14_all_changes(prices) ==
    LET changes == [i \in 1..(Len(prices) - 1) |-> prices[i + 1] - prices[i]]
        gains == sum([i \in 1..Len(changes) |-> IF changes[i] > 0 THEN changes[i] ELSE 0])
        losses == sum([i \in 1..Len(changes) |-> IF changes[i] < 0 THEN -changes[i] ELSE 0])
    IN IF losses = 0 THEN Ratio(100, 1)
       ELSE Minus(Ratio(100, 1),
                  Over(Ratio(100, 1), Plus(Ratio(1, 1), Ratio(gains, losses))))

\* lines 476-488: the RSI of a list of prices
rsi_14(prices) ==
    LET changes == [i \in 1..(Len(prices) - 1) |-> prices[i + 1] - prices[i]]
        gains == [i \in 1..Len(changes) |-> IF changes[i] > 0 THEN changes[i] ELSE 0]
        losses == [i \in 1..Len(changes) |-> IF changes[i] < 0 THEN -changes[i] ELSE 0]
        avg_gain == IF gains # << >> THEN Ratio(sum(LastOf(gains, RsiWindow)), RsiWindow)
                    ELSE Ratio(0, 1)
        avg_loss == IF losses # << >> THEN Ratio(sum(LastOf(losses, RsiWindow)), RsiWindow)
                    ELSE Ratio(0, 1)
    IN IF avg_loss.n = 0 THEN Ratio(100, 1)
       ELSE LET rs == Over(avg_gain, avg_loss)
            IN Minus(Ratio(100, 1), Over(Ratio(100, 1), Plus(Ratio(1, 1), rs)))

\* MarketDataFetcher.calculate_technical_indicators on the history that
\* get_historical_prices(coin, days=30) returned: {} or the indicator set, of
\* which the RSI and the current price are kept
calculate_technical_indicators(historical) ==
    IF historical = << >> \/ Len(historical) < MinHistoryPoints THEN << >>
    ELSE LET prices == [i \in 1..Len(historical) |-> historical[i].price]
         IN [rsi_14 |-> rsi_14(prices), current_price |-> prices[Len(prices)]]

\* the history whose prices start at 10 and change by deltas
HistoryOf(deltas) ==
    [i \in 1..(Len(deltas) + 1) |-> Point(i, 10 + sum(SubSeq(deltas, 1, i - 1)))]

\* histories of 12 to MaxHistoryPoints daily points that rise by 1 a day but
\* for at most two days, which fall by 2 or stay level
Histories ==
    UNION { { HistoryOf([i \in 1..(n - 1) |-> IF i = a THEN x ELSE IF i = b THEN y ELSE 1]) :
                a \in 1..(n - 1), b \in 1..(n - 1), x \in {-2, 0, 1}, y \in {-2, 0, 1} } :
            n \in (MinHistoryPoints - 2)..MaxHistoryPoints }

\* _get_market_state, line 173: one call of calculate_technical_indicators
CalculateIndicators ==
    /\ indicator.result = None
    /\ \E historical \in Histories :
          indicator' = [historical |-> historical,
                        result |-> Some(calculate_technical_indicators(historical))]
    /\ UNCHANGED << dbVars, trading_engines, loopQueue, cyclesStarted, fetcherVars,
                    limiterVars, callVars, cycleVars, trader, sched, risk, stopped >>

\* no call of calculate_technical_indicators under way
InitIndicator == indicator = [historical |-> << >>, result |-> None]

\* ------------------------------------------------------------------ __main__
\* app.run is serving: the process runs
InitProcess == stopped = FALSE

\* Ctrl+C ends app.run and with it the main thread; trading_loop runs in a daemon
\* thread, which the exiting interpreter stops wherever it stands
Shutdown ==
    /\ ~stopped
    /\ stopped' = TRUE
    /\ UNCHANGED << dbVars, trading_engines, loopQueue, cyclesStarted, fetcherVars,
                    limiterVars, callVars, cycleVars, trader, sched, risk, indicator >>

\* ------------------------------------------------------------- trading_loop
\* no pass under way: the thread sleeps between two passes
InitSched == sched = [phase |-> "sleep", tick |-> 0, snapshot |-> << >>, attempted |-> << >>]

\* ------------------------------------------------------------- TradingEngine
\* _validate_quantity raises
QuantityRejected(quantity) ==
    ~IsNaN(quantity) /\ (FloatVal(quantity) <= 0 \/ FloatVal(quantity) > MAX_QUANTITY)

\* _validate_leverage raises
LeverageRejected(leverage) == leverage < MIN_LEVERAGE \/ leverage > MAX_LEVERAGE

RequiredMargin(quantity, price, leverage) == (quantity * price) \div leverage

\* the outcome of the checks of _execute_buy / _execute_sell before any store call
EntryCheck(d, prices, coin, cash) ==
    IF ~CanFloat(d.quantity) \/ ~CanInt(d.leverage) THEN "validation"
    ELSE IF coin \notin DOMAIN prices THEN "exception"
    ELSE IF QuantityRejected(d.quantity) THEN "validation"
    ELSE IF LeverageRejected(PyInt(d.leverage)) THEN "validation"
    ELSE IF ~IsNaN(d.quantity)
            /\ RequiredMargin(FloatVal(d.quantity), prices[coin], PyInt(d.leverage)) > cash
         THEN "insufficient"
    ELSE "apply"

\* a check that looks at the stop loss alone
ShouldClose_stop_only(position, current_price) ==
    /\ Truthy(position.stop_loss)
    /\ \/ position.side = "long" /\ current_price <= position.stop_loss[1]
       \/ position.side = "short" /\ current_price >= position.stop_loss[1]

\* should_close of _check_stop_loss_take_profit
ShouldClose(position, current_price) ==
    LET stop == Truthy(position.stop_loss)
                /\ \/ position.side = "long" /\ current_price <= position.stop_loss[1]
                   \/ position.side = "short" /\ current_price >= position.stop_loss[1]
        take == Truthy(position.take_profit) /\ ~stop
                /\ \/ position.side = "long" /\ current_price >= position.take_profit[1]
                   \/ position.side = "short" /\ current_price <= position.take_profit[1]
    IN stop \/ take

\* the next position of the loop of _check_stop_loss_take_profit that is closed, or 0
RECURSIVE NextExit(_, _, _)
NextExit(positions, i, current_prices) ==
    IF i > Len(positions) THEN 0
    ELSE IF positions[i].coin \in DOMAIN current_prices
            /\ ShouldClose(positions[i], current_prices[positions[i].coin])
         THEN i
    ELSE NextExit(positions, i + 1, current_prices)

\* the position _execute_close picks: the first of the view with that coin, or 0
RECURSIVE FindPosition(_, _, _)
FindPosition(positions, i, coin) ==
    IF i > Len(positions) THEN 0
    ELSE IF positions[i].coin = coin THEN i
    ELSE FindPosition(positions, i + 1, coin)

Result(coin, kind) == [coin |-> coin, kind |-> kind]

\* the except clause of execute_trading_cycle
Fail(th) ==
    /\ pc' = [pc EXCEPT ![th] = "done"]
    /\ result' = [result EXCEPT ![th] = "failed"]

\* execute_trading_cycle is entered: _get_market_state
BeginCycle(th, m, markets, max) ==
    /\ cyclesStarted < max
    /\ cyclesStarted' = cyclesStarted + 1
    /\ \E ms \in markets : market_state' = [market_state EXCEPT ![th] = ms]
    /\ model' = [model EXCEPT ![th] = m]
    /\ pc' = [pc EXCEPT ![th] = "portfolio"]
    /\ UNCHANGED << portfolio, exitIdx, stop_results, decisions, decIdx, execution_results,
                    pendingTrade, updated_portfolio, recorded, result, fetcherVars,
                    componentVars >>

\* trading_loop: one pass of the while loop takes list(trading_engines.items())
LoopTick ==
    /\ pc["loop"] = "idle"
    /\ loopQueue = << >>
    /\ trading_engines # << >>
    /\ loopQueue' = trading_engines
    /\ UNCHANGED << dbVars, trading_engines, cyclesStarted, cycleVars, fetcherVars, componentVars >>

\* trading_loop: engine.execute_trading_cycle() for the next engine of the pass
LoopExec(markets, max) ==
    /\ pc["loop"] = "idle"
    /\ loopQueue # << >>
    /\ BeginCycle("loop", Head(loopQueue), markets, max)
    /\ loopQueue' = Tail(loopQueue)
    /\ UNCHANGED << dbVars, trading_engines >>

\* app.execute_trading: POST /api/models/<id>/execute
ApiExecute(m, markets, max) ==
    /\ pc["api"] = "idle"
    /\ m \in DOMAIN models
    /\ trading_engines' =
         IF \E i \in 1..Len(trading_engines) : trading_engines[i] = m
         THEN trading_engines ELSE Append(trading_engines, m)
    /\ BeginCycle("api", m, markets, max)
    /\ UNCHANGED << dbVars, loopQueue >>

\* line 37: portfolio = self.db.get_portfolio(...); the database file may be
\* unavailable (sqlite3.connect or the first SELECT raises)
LoadPortfolio(th) ==
    /\ pc[th] = "portfolio"
    /\ \E available \in BOOLEAN :
       IF ~available \/ model[th] \notin DOMAIN models
       THEN Fail(th) /\ UNCHANGED << portfolio >>
       ELSE /\ portfolio' = [portfolio EXCEPT ![th] = get_portfolio(models, portfolios, trades, model[th], market_state[th])]
            /\ pc' = [pc EXCEPT ![th] = "exits"]
            /\ UNCHANGED result
    /\ UNCHANGED << dbVars, appVars, model, market_state, exitIdx, stop_results, decisions,
                    decIdx, execution_results, pendingTrade, updated_portfolio, recorded >>

\* _check_stop_loss_take_profit up to the close_position of the next triggered position
EvaluateExits(th) ==
    /\ pc[th] = "exits"
    /\ LET positions == portfolio[th].positions
           i == NextExit(positions, exitIdx[th], market_state[th])
       IN IF i = 0
          THEN /\ pc' = [pc EXCEPT ![th] = "decide"]
               /\ UNCHANGED << portfolios, exitIdx, pendingTrade, result >>
          ELSE IF dbLocked
          THEN Fail(th) /\ UNCHANGED << portfolios, exitIdx, pendingTrade >>
          ELSE LET p == positions[i]
                   current_price == market_state[th][p.coin]
                   pnl == PositionPnl(p.side, p.avg_price, current_price, p.quantity)
               IN /\ portfolios' = close_position(portfolios, model[th], p.coin, p.side)
                  /\ pendingTrade' = [pendingTrade EXCEPT ![th] =
                        TradeRow(model[th], p.coin, "auto_close", p.quantity,
                                 current_price, p.leverage, p.side, pnl)]
                  /\ exitIdx' = [exitIdx EXCEPT ![th] = i]
                  /\ pc' = [pc EXCEPT ![th] = "exit_trade"]
                  /\ UNCHANGED result
    /\ UNCHANGED << models, trades, account_values, conversations, dbLocked, appVars, model,
                    market_state, portfolio, stop_results, decisions, decIdx,
                    execution_results, updated_portfolio, recorded >>

\* _check_stop_loss_take_profit: the add_trade of a triggered position
ExitTrade(th) ==
    /\ pc[th] = "exit_trade"
    /\ IF dbLocked
       THEN Fail(th) /\ UNCHANGED << trades, stop_results, exitIdx, pendingTrade >>
       ELSE /\ trades' = add_trade(trades, pendingTrade[th])
            /\ stop_results' = [stop_results EXCEPT ![th] =
                  Append(@, [coin |-> pendingTrade[th].coin, side |-> pendingTrade[th].side,
                             kind |-> "auto_close", pnl |-> pendingTrade[th].pnl])]
            /\ exitIdx' = [exitIdx EXCEPT ![th] = @ + 1]
            /\ pendingTrade' = [pendingTrade EXCEPT ![th] = NoTrade]
            /\ pc' = [pc EXCEPT ![th] = "exits"]
            /\ UNCHANGED result
    /\ UNCHANGED << models, portfolios, account_values, conversations, dbLocked, appVars,
                    model, market_state, portfolio, decisions, decIdx, execution_results,
                    updated_portfolio, recorded >>

\* the portfolio argument of self.ai_trader.make_decision (lines 45-47)
ProviderView(th) == portfolio[th]

\* the loop of _execute_decisions left after its first pair
AfterFirstPair(ds, k) == "reconcile"

\* where the loop of _execute_decisions stands after its k-th pair
AfterPair(ds, k) == IF k >= Len(ds) THEN "reconcile" ELSE "execute"

\* a cycle that stores a conversation for every answer of the provider
StoreConversation_always(cs, m, ds) ==
    Append(cs, [model_id |-> m, coins |-> Len(ds)])

\* lines 50-59: the conversation is stored when the decision map is not empty
StoreConversation(cs, m, ds) ==
    IF ds # << >> THEN Append(cs, [model_id |-> m, coins |-> Len(ds)]) ELSE cs

\* lines 42-57: _build_account_info, make_decision, add_conversation
RequestDecision(th, maps) ==
    /\ pc[th] = "decide"
    /\ IF model[th] \notin DOMAIN models
       THEN Fail(th) /\ UNCHANGED << decisions, decIdx, conversations >>
       ELSE \E ds \in maps :
              IF ds # << >> /\ dbLocked
              THEN Fail(th) /\ UNCHANGED << decisions, decIdx, conversations >>
              ELSE /\ decisions' = [decisions EXCEPT ![th] = ds]
                   /\ decIdx' = [decIdx EXCEPT ![th] = 1]
                   /\ conversations' = StoreConversation(conversations, model[th], ds)
                   /\ pc' = [pc EXCEPT ![th] = AfterPair(ds, 0)]
                   /\ UNCHANGED result
    /\ UNCHANGED << models, portfolios, trades, account_values, dbLocked, appVars, model,
                    market_state, portfolio, exitIdx, stop_results, execution_results,
                    pendingTrade, updated_portfolio, recorded >>

\* the pair of _execute_decisions at decIdx is done with result r
NextPair(th, r) ==
    /\ execution_results' = [execution_results EXCEPT ![th] = Append(@, r)]
    /\ decIdx' = [decIdx EXCEPT ![th] = @ + 1]
    /\ pc' = [pc EXCEPT ![th] = AfterPair(decisions[th], decIdx[th])]

\* _execute_buy / _execute_sell up to update_position
ExecuteEntry(th, coin, d, signal, side) ==
    LET check == EntryCheck(d, market_state[th], coin, portfolio[th].cash)
    IN IF check # "apply"
       THEN NextPair(th, Result(coin, check))
            /\ UNCHANGED << portfolios, dbLocked, pendingTrade, result >>
       ELSE IF dbLocked
       THEN NextPair(th, Result(coin, "exception"))
            /\ UNCHANGED << portfolios, dbLocked, pendingTrade, result >>
       ELSE IF IsNaN(d.quantity)
       THEN \* quantity REAL NOT NULL: the INSERT raises and its connection is not closed
            /\ NextPair(th, Result(coin, "exception"))
            /\ dbLocked' = TRUE
            /\ UNCHANGED << portfolios, pendingTrade, result >>
       ELSE LET quantity == FloatVal(d.quantity)
                leverage == PyInt(d.leverage)
                price == market_state[th][coin]
            IN /\ portfolios' = update_position(portfolios,
                     PositionRow(model[th], coin, quantity, price, leverage, side,
                                 d.stop_loss, d.take_profit))
               /\ pendingTrade' = [pendingTrade EXCEPT ![th] =
                     TradeRow(model[th], coin, signal, quantity, price, leverage, side, 0)]
               /\ pc' = [pc EXCEPT ![th] = "exec_trade"]
               /\ UNCHANGED << dbLocked, execution_results, decIdx, result >>

\* _execute_close up to close_position
ExecuteClose(th, coin) ==
    LET positions == portfolio[th].positions
        i == FindPosition(positions, 1, coin)
    IN IF i = 0
       THEN NextPair(th, Result(coin, "not_found"))
            /\ UNCHANGED << portfolios, dbLocked, pendingTrade, result >>
       ELSE IF coin \notin DOMAIN market_state[th] \/ dbLocked
       THEN NextPair(th, Result(coin, "exception"))
            /\ UNCHANGED << portfolios, dbLocked, pendingTrade, result >>
       ELSE LET p == positions[i]
                current_price == market_state[th][coin]
                pnl == PositionPnl(p.side, p.avg_price, current_price, p.quantity)
            IN /\ portfolios' = close_position(portfolios, model[th], coin, p.side)
               /\ pendingTrade' = [pendingTrade EXCEPT ![th] =
                     TradeRow(model[th], coin, "close_position", p.quantity,
                              current_price, p.leverage, p.side, pnl)]
               /\ pc' = [pc EXCEPT ![th] = "exec_trade"]
               /\ UNCHANGED << dbLocked, execution_results, decIdx, result >>

\* one pass of the loop of _execute_decisions, up to its first store write
ExecuteDecision(th) ==
    /\ pc[th] = "execute"
    /\ LET coin == decisions[th][decIdx[th]].coin
           d == decisions[th][decIdx[th]].d
       IN IF coin \notin SUPPORTED_COINS
          THEN /\ decIdx' = [decIdx EXCEPT ![th] = @ + 1]
               /\ pc' = [pc EXCEPT ![th] = AfterPair(decisions[th], decIdx[th])]
               /\ UNCHANGED << portfolios, dbLocked, pendingTrade, execution_results, result >>
          ELSE IF d.signal = JsonNull
          THEN \* line 202, outside the try: None has no lower()
               Fail(th) /\ UNCHANGED << portfolios, dbLocked, pendingTrade,
                                        execution_results, decIdx >>
          ELSE LET signal == Lower(d.signal)
               IN CASE signal = "buy_to_enter" -> ExecuteEntry(th, coin, d, signal, "long")
                    [] signal = "sell_to_enter" -> ExecuteEntry(th, coin, d, signal, "short")
                    [] signal = "close_position" -> ExecuteClose(th, coin)
                    [] signal = "hold" ->
                         NextPair(th, Result(coin, "hold"))
                         /\ UNCHANGED << portfolios, dbLocked, pendingTrade, result >>
                    [] OTHER ->
                         NextPair(th, Result(coin, "unknown_signal"))
                         /\ UNCHANGED << portfolios, dbLocked, pendingTrade, result >>
    /\ UNCHANGED << models, trades, account_values, conversations, appVars, model,
                    market_state, portfolio, exitIdx, stop_results, decisions,
                    updated_portfolio, recorded >>

\* the add_trade of _execute_buy, _execute_sell and _execute_close
ExecTrade(th) ==
    /\ pc[th] = "exec_trade"
    /\ IF dbLocked
       THEN NextPair(th, Result(pendingTrade[th].coin, "exception")) /\ UNCHANGED trades
       ELSE /\ trades' = add_trade(trades, pendingTrade[th])
            /\ NextPair(th, Result(pendingTrade[th].coin, pendingTrade[th].signal))
    /\ pendingTrade' = [pendingTrade EXCEPT ![th] = NoTrade]
    /\ UNCHANGED << models, portfolios, account_values, conversations, dbLocked, appVars,
                    model, market_state, portfolio, exitIdx, stop_results, decisions,
                    updated_portfolio, recorded, result >>

\* line 70: updated_portfolio = self.db.get_portfolio(...)
Reconcile(th) ==
    /\ pc[th] = "reconcile"
    /\ IF model[th] \notin DOMAIN models
       THEN Fail(th) /\ UNCHANGED updated_portfolio
       ELSE /\ updated_portfolio' = [updated_portfolio EXCEPT ![th] =
                  get_portfolio(models, portfolios, trades, model[th], market_state[th])]
            /\ pc' = [pc EXCEPT ![th] = "record"]
            /\ UNCHANGED result
    /\ UNCHANGED << dbVars, appVars, model, market_state, portfolio, exitIdx, stop_results,
                    decisions, decIdx, execution_results, pendingTrade, recorded >>

\* lines 71-83: record_account_value and the success result
RecordAccountValue(th) ==
    /\ pc[th] = "record"
    /\ IF dbLocked
       THEN Fail(th) /\ UNCHANGED << account_values, recorded >>
       ELSE /\ account_values' =
                  record_account_value(account_values, model[th], updated_portfolio[th])
            /\ recorded' = [recorded EXCEPT ![th] = @ + 1]
            /\ pc' = [pc EXCEPT ![th] = "done"]
            /\ result' = [result EXCEPT ![th] = "success"]
    /\ UNCHANGED << models, portfolios, trades, conversations, dbLocked, appVars, model,
                    market_state, portfolio, exitIdx, stop_results, decisions, decIdx,
                    execution_results, pendingTrade, updated_portfolio >>

\* execute_trading_cycle returns to its caller
Return(th) ==
    /\ pc[th] = "done"
    /\ pc' = [pc EXCEPT ![th] = "idle"]
    /\ model' = [model EXCEPT ![th] = 0]
    /\ market_state' = [market_state EXCEPT ![th] = << >>]
    /\ portfolio' = [portfolio EXCEPT ![th] = NoPortfolio]
    /\ exitIdx' = [exitIdx EXCEPT ![th] = 1]
    /\ stop_results' = [stop_results EXCEPT ![th] = << >>]
    /\ decisions' = [decisions EXCEPT ![th] = << >>]
    /\ decIdx' = [decIdx EXCEPT ![th] = 1]
    /\ execution_results' = [execution_results EXCEPT ![th] = << >>]
    /\ pendingTrade' = [pendingTrade EXCEPT ![th] = NoTrade]
    /\ updated_portfolio' = [updated_portfolio EXCEPT ![th] = NoPortfolio]
    /\ recorded' = [recorded EXCEPT ![th] = 0]
    /\ result' = [result EXCEPT ![th] = "none"]
    /\ UNCHANGED << dbVars, appVars >>

\* app.delete_model with Database.delete_model
DeleteModel(m) ==
    /\ m \in DOMAIN models
    /\ ~dbLocked
    /\ models' = [x \in DOMAIN models \ {m} |-> models[x]]
    /\ portfolios' = SelectSeq(portfolios, LAMBDA r : r.model_id # m)
    /\ trades' = SelectSeq(trades, LAMBDA r : r.model_id # m)
    /\ conversations' = SelectSeq(conversations, LAMBDA r : r.model_id # m)
    /\ account_values' = SelectSeq(account_values, LAMBDA r : r.model_id # m)
    /\ trading_engines' = SelectSeq(trading_engines, LAMBDA x : x # m)
    /\ UNCHANGED << dbLocked, loopQueue, cyclesStarted, cycleVars, fetcherVars, componentVars >>

\* the connection a failed write left open is collected: its transaction rolls back
GarbageCollect ==
    /\ dbLocked
    /\ dbLocked' = FALSE
    /\ UNCHANGED << models, portfolios, trades, account_values, conversations, appVars,
                    cycleVars >>

\* the store a run starts from: a new database, or the rows an earlier run left
\* behind after one cycle that applied the entry d for coin at price
SeedEntries ==
    { e \in [coin : SUPPORTED_COINS, price : Prices,
             d : { x \in DecisionInputs : Lower(x.signal) \in {"buy_to_enter", "sell_to_enter"} }] :
        \A ic \in InitialCapitals :
            EntryCheck(e.d, [c \in {e.coin} |-> e.price], e.coin, ic) = "apply"
            /\ ~IsNaN(e.d.quantity) }

SeedSide(d) == IF Lower(d.signal) = "buy_to_enter" THEN "long" ELSE "short"

SeedPortfolios(m, e) ==
    << PositionRow(m, e.coin, FloatVal(e.d.quantity), e.price, PyInt(e.d.leverage),
                   SeedSide(e.d), e.d.stop_loss, e.d.take_profit) >>

SeedTrades(m, e) ==
    << TradeRow(m, e.coin, Lower(e.d.signal), FloatVal(e.d.quantity), e.price,
                PyInt(e.d.leverage), SeedSide(e.d), 0) >>

\* db.init_db on a new or an existing database file, init_trading_engines
InitApp ==
    /\ \E ic \in InitialCapitals : models = [m \in ModelIds |-> [initial_capital |-> ic]]
    /\ \/ /\ portfolios = << >>
          /\ trades = << >>
          /\ account_values = << >>
          /\ conversations = << >>
       \/ \E m \in ModelIds, e \in SeedEntries :
          /\ portfolios = SeedPortfolios(m, e)
          /\ trades = SeedTrades(m, e)
          /\ account_values = record_account_value(<< >>, m,
                get_portfolio(models, SeedPortfolios(m, e), SeedTrades(m, e), m,
                              [c \in {e.coin} |-> e.price]))
          /\ conversations = << [model_id |-> m, coins |-> 1] >>
    /\ dbLocked = FALSE
    /\ trading_engines = << 1 >>
    /\ loopQueue = << >>
    /\ cyclesStarted = 0
    /\ pc = [th \in Threads |-> "idle"]
    /\ model = [th \in Threads |-> 0]
    /\ market_state = [th \in Threads |-> << >>]
    /\ portfolio = [th \in Threads |-> NoPortfolio]
    /\ exitIdx = [th \in Threads |-> 1]
    /\ stop_results = [th \in Threads |-> << >>]
    /\ decisions = [th \in Threads |-> << >>]
    /\ decIdx = [th \in Threads |-> 1]
    /\ execution_results = [th \in Threads |-> << >>]
    /\ pendingTrade = [th \in Threads |-> NoTrade]
    /\ updated_portfolio = [th \in Threads |-> NoPortfolio]
    /\ recorded = [th \in Threads |-> 0]
    /\ result = [th \in Threads |-> "none"]
    /\ InitFetcher
    /\ InitLimiter
    /\ InitCalls
    /\ InitSched
    /\ InitIndicator
    /\ InitProcess

\* the steps of execute_trading_cycle that take no input
CycleStep(th) ==
    \/ LoadPortfolio(th)
    \/ EvaluateExits(th)
    \/ ExitTrade(th)
    \/ ExecuteDecision(th)
    \/ ExecTrade(th)
    \/ Reconcile(th)
    \/ RecordAccountValue(th)
    \/ Return(th)

\* the state after construction
Init == InitApp /\ InitPure

\* the scheduler thread alone, with every input
Next ==
    \/ LoopTick
    \/ LoopExec(MarketStates, MaxCycles)
    \/ RequestDecision("loop", DecisionMaps)
    \/ CycleStep("loop")
    \/ \E m \in ModelIds : DeleteModel(m)
    \/ GarbageCollect

Spec == Init /\ [][Next]_vars

\* inputs of the cycles that run next to each other
ConcMarketStates == { [c \in SUPPORTED_COINS |-> 3] }
ConcDecisionMaps ==
    { << >> } \cup
    { << [coin |-> "BTC", d |-> x] >> :
        x \in { y \in DecisionInputs :
                  y.signal \in {"close_position", "SELL_TO_ENTER"} } }

\* the scheduler thread and a request thread of the web server
NextConc ==
    \/ LoopTick
    \/ LoopExec(ConcMarketStates, MaxConcCycles)
    \/ \E m \in ModelIds : ApiExecute(m, ConcMarketStates, MaxConcCycles)
    \/ \E th \in Threads : RequestDecision(th, ConcDecisionMaps)
    \/ \E th \in Threads : CycleStep(th)
    \/ \E m \in ModelIds : DeleteModel(m)

SpecConc == Init /\ [][NextConc]_vars

\* ------------------------------------------------- whole cycles as single steps
\* A cycle of execute_trading_cycle that runs alone, with a market of one coin,
\* no exit triggered and a decision map of one pair, taken as one step.
OneCoinMarket(coin, price) == [c \in {coin} |-> price]

\* the entries a provider may return that pass the validation
EntryDecisions ==
    { d \in DecisionInputs :
        /\ Lower(d.signal) \in {"buy_to_enter", "sell_to_enter"}
        /\ CanFloat(d.quantity) /\ ~IsNaN(d.quantity) /\ CanInt(d.leverage)
        /\ ~QuantityRejected(d.quantity)
        /\ ~LeverageRejected(PyInt(d.leverage)) }

\* the cycle reaches update_position for the entry d of coin
EntryApplies(tm, tp, tt, m, coin, d, price) ==
    LET ms == OneCoinMarket(coin, price)
        view == get_portfolio(tm, tp, tt, m, ms)
    IN /\ NextExit(view.positions, 1, ms) = 0
       /\ EntryCheck(d, ms, coin, view.cash) = "apply"

\* portfolios after _execute_buy / _execute_sell
EntryPortfolios(tp, m, coin, d, price) ==
    update_position(tp, PositionRow(m, coin, FloatVal(d.quantity), price, PyInt(d.leverage),
                                    SeedSide(d), d.stop_loss, d.take_profit))

\* trades after _execute_buy / _execute_sell
EntryTrades(tt, m, coin, d, price) ==
    add_trade(tt, TradeRow(m, coin, Lower(d.signal), FloatVal(d.quantity), price,
                           PyInt(d.leverage), SeedSide(d), 0))

\* the position _execute_close finds for coin in the view of the cycle, or 0
ClosePick(tm, tp, tt, m, coin, price) ==
    FindPosition(get_portfolio(tm, tp, tt, m, OneCoinMarket(coin, price)).positions, 1, coin)

\* the cycle reaches close_position for coin
CloseApplies(tm, tp, tt, m, coin, price) ==
    LET ms == OneCoinMarket(coin, price)
        view == get_portfolio(tm, tp, tt, m, ms)
    IN /\ NextExit(view.positions, 1, ms) = 0
       /\ ClosePick(tm, tp, tt, m, coin, price) # 0

\* portfolios after _execute_close
ClosePortfolios(tm, tp, tt, m, coin, price) ==
    LET view == get_portfolio(tm, tp, tt, m, OneCoinMarket(coin, price))
        p == view.positions[ClosePick(tm, tp, tt, m, coin, price)]
    IN close_position(tp, m, coin, p.side)

\* trades after _execute_close
CloseTrades(tm, tp, tt, m, coin, price) ==
    LET view == get_portfolio(tm, tp, tt, m, OneCoinMarket(coin, price))
        p == view.positions[ClosePick(tm, tp, tt, m, coin, price)]
    IN add_trade(tt, TradeRow(m, coin, "close_position", p.quantity, price, p.leverage,
                              p.side, PositionPnl(p.side, p.avg_price, price, p.quantity)))

\* lines 70-76 of the cycle: the snapshot of the ledger it leaves
CycleSnapshot(tm, tp, tt, ta, m, coin, price) ==
    record_account_value(ta, m, get_portfolio(tm, tp, tt, m, OneCoinMarket(coin, price)))

\* a cycle whose decision map is {coin: d}, d an entry
EntryCycle(m, coin, d, price) ==
    /\ m \in DOMAIN models
    /\ Len(trades) < MaxLedgerTrades
    /\ EntryApplies(models, portfolios, trades, m, coin, d, price)
    /\ portfolios' = EntryPortfolios(portfolios, m, coin, d, price)
    /\ trades' = EntryTrades(trades, m, coin, d, price)
    /\ conversations' = Append(conversations, [model_id |-> m, coins |-> 1])
    /\ account_values' = CycleSnapshot(models, portfolios', trades', account_values,
                                       m, coin, price)
    /\ UNCHANGED << models, dbLocked, appVars, cycleVars >>

\* a cycle whose decision map is {coin: close_position}
CloseCycle(m, coin, price) ==
    /\ m \in DOMAIN models
    /\ Len(trades) < MaxLedgerTrades
    /\ CloseApplies(models, portfolios, trades, m, coin, price)
    /\ portfolios' = ClosePortfolios(models, portfolios, trades, m, coin, price)
    /\ trades' = CloseTrades(models, portfolios, trades, m, coin, price)
    /\ conversations' = Append(conversations, [model_id |-> m, coins |-> 1])
    /\ account_values' = CycleSnapshot(models, portfolios', trades', account_values,
                                       m, coin, price)
    /\ UNCHANGED << models, dbLocked, appVars, cycleVars >>

\* an entry cycle and, right after it, a closing cycle for the same coin at the
\* same price
RoundTrip(m, coin, d, price) ==
    /\ m \in DOMAIN models
    /\ Len(trades) + 1 < MaxLedgerTrades
    /\ EntryApplies(models, portfolios, trades, m, coin, d, price)
    /\ LET p1 == EntryPortfolios(portfolios, m, coin, d, price)
           t1 == EntryTrades(trades, m, coin, d, price)
           a1 == CycleSnapshot(models, p1, t1, account_values, m, coin, price)
       IN /\ CloseApplies(models, p1, t1, m, coin, price)
          /\ portfolios' = ClosePortfolios(models, p1, t1, m, coin, price)
          /\ trades' = CloseTrades(models, p1, t1, m, coin, price)
          /\ account_values' = CycleSnapshot(models, portfolios', trades', a1, m, coin, price)
    /\ conversations' = Append(Append(conversations, [model_id |-> m, coins |-> 1]),
                               [model_id |-> m, coins |-> 1])
    /\ UNCHANGED << models, dbLocked, appVars, cycleVars >>

NextLedger ==
    \/ \E m \in ModelIds, coin \in SUPPORTED_COINS, d \in EntryDecisions, price \in Prices :
          EntryCycle(m, coin, d, price)
    \/ \E m \in ModelIds, coin \in SUPPORTED_COINS, price \in Prices :
          CloseCycle(m, coin, price)
    \/ \E m \in ModelIds, coin \in SUPPORTED_COINS, d \in EntryDecisions, price \in Prices :
          RoundTrip(m, coin, d, price)

SpecLedger == Init /\ [][NextLedger]_vars

\* ------------------------------------------------- cycles over stored exits
\* entries with the stop_loss / take_profit values a provider may attach: none,
\* 0 (what the text fallback of the provider returns for a missing number) or 2
ExitDecisions ==
    { Decision("buy_to_enter", Num(1, 1), Num(1, 1), Some(2), None),
      Decision("buy_to_enter", Num(1, 1), Num(1, 1), None, Some(0)),
      Decision("buy_to_enter", Num(1, 1), Num(1, 1), Some(0), Some(2)),
      Decision("sell_to_enter", Num(1, 1), Num(1, 1), Some(2), None),
      Decision("sell_to_enter", Num(1, 1), Num(1, 1), Some(0), None),
      Decision("sell_to_enter", Num(1, 1), Num(1, 1), None, Some(2)) }

ExitEntries == [coin : SUPPORTED_COINS, price : Prices, d : ExitDecisions]

\* the decision maps of a cycle that follows: nothing, or a close of BTC
ExitDecisionMaps ==
    { << >>,
      << [coin |-> "BTC", d |-> Decision("close_position", Num(0, 1), Num(1, 1), None, None)] >> }

\* the store after a cycle that applied the entry e to the store s
AfterEntryCycle(tm, s, m, e) ==
    LET tp == EntryPortfolios(s.portfolios, m, e.coin, e.d, e.price)
        tt == EntryTrades(s.trades, m, e.coin, e.d, e.price)
    IN [portfolios |-> tp,
        trades |-> tt,
        account_values |-> CycleSnapshot(tm, tp, tt, s.account_values, m, e.coin, e.price),
        conversations |-> Append(s.conversations, [model_id |-> m, coins |-> 1])]

EmptyStore ==
    [portfolios |-> << >>, trades |-> << >>, account_values |-> << >>,
     conversations |-> << >>]

\* the stores that zero, one or two entry cycles of model m leave behind
ExitStores(tm, m) ==
    LET one == { AfterEntryCycle(tm, EmptyStore, m, e) :
                   e \in { x \in ExitEntries :
                             EntryApplies(tm, << >>, << >>, m, x.coin, x.d, x.price) } }
        two == UNION { { AfterEntryCycle(tm, s, m, e) :
                           e \in { x \in ExitEntries :
                                     EntryApplies(tm, s.portfolios, s.trades, m,
                                                  x.coin, x.d, x.price) } } : s \in one }
    IN {EmptyStore} \cup one \cup two

\* the application starts on a database that earlier entry cycles have filled
InitExits ==
    /\ \E ic \in InitialCapitals : models = [m \in ModelIds |-> [initial_capital |-> ic]]
    /\ \E m \in ModelIds : \E s \in ExitStores(models, m) :
          /\ portfolios = s.portfolios
          /\ trades = s.trades
          /\ account_values = s.account_values
          /\ conversations = s.conversations
    /\ dbLocked = FALSE
    /\ trading_engines = << 1 >>
    /\ loopQueue = << >>
    /\ cyclesStarted = 0
    /\ pc = [th \in Threads |-> "idle"]
    /\ model = [th \in Threads |-> 0]
    /\ market_state = [th \in Threads |-> << >>]
    /\ portfolio = [th \in Threads |-> NoPortfolio]
    /\ exitIdx = [th \in Threads |-> 1]
    /\ stop_results = [th \in Threads |-> << >>]
    /\ decisions = [th \in Threads |-> << >>]
    /\ decIdx = [th \in Threads |-> 1]
    /\ execution_results = [th \in Threads |-> << >>]
    /\ pendingTrade = [th \in Threads |-> NoTrade]
    /\ updated_portfolio = [th \in Threads |-> NoPortfolio]
    /\ recorded = [th \in Threads |-> 0]
    /\ result = [th \in Threads |-> "none"]
    /\ InitFetcher
    /\ InitLimiter
    /\ InitCalls
    /\ InitSched
    /\ InitIndicator
    /\ InitProcess
    /\ InitPure

NextExits ==
    \/ LoopTick
    \/ LoopExec(MarketStates, MaxCycles)
    \/ RequestDecision("loop", ExitDecisionMaps)
    \/ CycleStep("loop")

SpecExits == InitExits /\ [][NextExits]_vars

\* ------------------------------------------------ the market data requests
\* the aggregator alone, on a new database
InitMarket == Init /\ portfolios = << >>

NextMarket ==
    \/ \E coins \in PriceRequests : get_current_prices(coins)
    \/ \E r \in HistoryRequests : get_historical_prices(r.coin, r.days)
    \/ ReplyTaken
    \/ Restart
    \/ \E d \in Delays : Advance(d)

SpecMarket == InitMarket /\ [][NextMarket]_vars

\* ------------------------------- the fetcher called again within seconds
\* the time between two calls: a second, just under the six hours a history
\* entry stays fresh, or just under the five seconds a price entry stays fresh
QuickDelays == { 1, MARKET_API_CACHE_DURATION - 1, HistoricalCacheAge - 1 }

NextQuick ==
    \/ \E coins \in PriceRequests : get_current_prices(coins)
    \/ \E h \in HistoryRequests : get_historical_prices(h.coin, h.days)
    \/ ReplyTaken
    \/ \E d \in QuickDelays : Advance(d)

SpecQuick == InitMarket /\ [][NextQuick]_vars

\* ------------------------------------------- the rate limiter, one caller
\* the market state of one cycle: the adapters, called one after another
LimiterCoins == << "BTC", "ETH" >>

LimiterStep(th) ==
    \/ \E a \in Adapters : EnterAdapter(th, a, LimiterCoins)
    \/ Sleep(th)
    \/ NetworkCall(th)

LimiterRest ==
    UNCHANGED << dbVars, trading_engines, loopQueue, cyclesStarted, fetcherVars, callVars,
                 trader, cycleVars, sched, risk,
                 indicator,
                 stopped >>

NextLimiter ==
    \/ Tick /\ LimiterRest
    \/ LimiterStep("loop") /\ LimiterRest

SpecLimiter == InitMarket /\ [][NextLimiter]_vars

\* ------------------------------------- the rate limiter, two callers at once
\* trading_loop and a request handler share the one market_fetcher of app.py
NextLimiterConc ==
    \/ Tick /\ LimiterRest
    \/ \E th \in Threads : LimiterStep(th) /\ LimiterRest

SpecLimiterConc == InitMarket /\ [][NextLimiterConc]_vars

\* --------------------------------------------- make_decision over its inputs
InitDecide ==
    /\ InitApp
    /\ portfolios = << >>
    /\ InitRisk
    /\ trader \in TraderInputs

SpecDecide == InitDecide /\ [][Decide]_vars

\* --------------------------------------- should_pause_trading over its inputs
InitShouldPause ==
    /\ InitApp
    /\ portfolios = << >>
    /\ InitTrader
    /\ \E snapshots \in RiskSnapshots, rows \in RiskTrades, pf \in RiskPortfolios :
          risk = [snapshots |-> snapshots, rows |-> rows, pf |-> pf, result |-> None]

SpecShouldPause == InitShouldPause /\ [][ShouldPause]_vars

\* ------------------------------------ _calculate_max_drawdown over histories
InitDrawdown ==
    /\ InitApp
    /\ portfolios = << >>
    /\ InitTrader
    /\ risk \in { [snapshots |-> snapshots, rows |-> << >>, pf |-> << >>, result |-> None] :
                    snapshots \in DrawdownSnapshots }

SpecDrawdown == InitDrawdown /\ [][CalculateMaxDrawdown]_vars

\* ------------------------------------------ calculate_risk_score over its inputs
InitScore ==
    /\ InitApp
    /\ portfolios = << >>
    /\ InitTrader
    /\ risk \in { [snapshots |-> snapshots, rows |-> << >>, pf |-> pf, result |-> None] :
                    snapshots \in RiskSnapshots, pf \in ScorePortfolios }

SpecScore == InitScore /\ [][CalculateRiskScore]_vars

\* ------------------------------- calculate_technical_indicators over histories
InitIndicators ==
    /\ InitApp
    /\ portfolios = << >>
    /\ InitPure

SpecIndicators == InitIndicators /\ [][CalculateIndicators]_vars

\* ------------------------------------- a cycle of a model that has lost money
\* the store two cycles leave behind: model m went long 1 BTC at 3 and closed it
\* at 1, its account value falling from 5 to 3; when held, the second cycle
\* also went long 1 ETH at 1 with a stop loss of 2
LossStore(tm, m, held) ==
    LET opened == update_position(<< >>, PositionRow(m, "BTC", 1, 3, 1, "long",
                                                     None, None))
        entry == add_trade(<< >>, TradeRow(m, "BTC", "buy_to_enter", 1, 3, 1, "long", 0))
        first == record_account_value(<< >>, m,
                     get_portfolio(tm, opened, entry, m, [c \in {"BTC"} |-> 3]))
        sold == close_position(opened, m, "BTC", "long")
        booked == add_trade(entry, TradeRow(m, "BTC", "close_position", 1, 1, 1, "long",
                                            PositionPnl("long", 3, 1, 1)))
        closed == IF held
                  THEN update_position(sold, PositionRow(m, "ETH", 1, 1, 1, "long", Some(2), None))
                  ELSE sold
        exit == IF held
                THEN add_trade(booked, TradeRow(m, "ETH", "buy_to_enter", 1, 1, 1, "long", 0))
                ELSE booked
    IN [portfolios |-> closed,
        trades |-> exit,
        account_values |-> record_account_value(first, m,
                               get_portfolio(tm, closed, exit, m, [c \in {"BTC", "ETH"} |-> 1])),
        conversations |-> << [model_id |-> m, coins |-> 1], [model_id |-> m, coins |-> 1] >>]

\* no cycle runs and no component is in use
InitIdle ==
    /\ loopQueue = << >>
    /\ cyclesStarted = 0
    /\ pc = [th \in Threads |-> "idle"]
    /\ model = [th \in Threads |-> 0]
    /\ market_state = [th \in Threads |-> << >>]
    /\ portfolio = [th \in Threads |-> NoPortfolio]
    /\ exitIdx = [th \in Threads |-> 1]
    /\ stop_results = [th \in Threads |-> << >>]
    /\ decisions = [th \in Threads |-> << >>]
    /\ decIdx = [th \in Threads |-> 1]
    /\ execution_results = [th \in Threads |-> << >>]
    /\ pendingTrade = [th \in Threads |-> NoTrade]
    /\ updated_portfolio = [th \in Threads |-> NoPortfolio]
    /\ recorded = [th \in Threads |-> 0]
    /\ result = [th \in Threads |-> "none"]
    /\ InitFetcher
    /\ InitLimiter
    /\ InitCalls
    /\ InitSched
    /\ InitIndicator
    /\ InitProcess
    /\ InitPure

InitLoss ==
    /\ \E ic \in InitialCapitals : models = [m \in ModelIds |-> [initial_capital |-> ic]]
    /\ \E m \in ModelIds, held \in BOOLEAN :
          /\ portfolios = LossStore(models, m, held).portfolios
          /\ trades = LossStore(models, m, held).trades
          /\ account_values = LossStore(models, m, held).account_values
          /\ conversations = LossStore(models, m, held).conversations
    /\ dbLocked = FALSE
    /\ trading_engines = << 1 >>
    /\ InitIdle

SpecLoss == InitLoss /\ [][Next]_vars

\* ----------------------------------------------- cycles of two models side by side
IsolatedModelIds == {1, 2}
IsolatedMarketStates == { [c \in SUPPORTED_COINS |-> p] : p \in Prices }

\* the store after one cycle of model 1 and one of model 2: each went long 1 BTC
\* at 3, model 2 with a stop loss of 2
HeldStore(tm) ==
    LET ms == [c \in SUPPORTED_COINS |-> 3]
        p1 == update_position(<< >>, PositionRow(1, "BTC", 1, 3, 1, "long", None, None))
        t1 == add_trade(<< >>, TradeRow(1, "BTC", "buy_to_enter", 1, 3, 1, "long", 0))
        a1 == record_account_value(<< >>, 1, get_portfolio(tm, p1, t1, 1, ms))
        p2 == update_position(p1, PositionRow(2, "BTC", 1, 3, 1, "long", Some(2), None))
        t2 == add_trade(t1, TradeRow(2, "BTC", "buy_to_enter", 1, 3, 1, "long", 0))
        a2 == record_account_value(a1, 2, get_portfolio(tm, p2, t2, 2, ms))
    IN [portfolios |-> p2, trades |-> t2, account_values |-> a2,
        conversations |-> << [model_id |-> 1, coins |-> 1], [model_id |-> 2, coins |-> 1] >>]

InitIsolated ==
    /\ \E ic \in InitialCapitals :
          models = [m \in IsolatedModelIds |-> [initial_capital |-> ic]]
    /\ portfolios = HeldStore(models).portfolios
    /\ trades = HeldStore(models).trades
    /\ account_values = HeldStore(models).account_values
    /\ conversations = HeldStore(models).conversations
    /\ dbLocked = FALSE
    /\ trading_engines = << 1, 2 >>
    /\ InitIdle

\* the scheduler thread and a request thread, each running the engine of a model
NextIsolated ==
    \/ LoopTick
    \/ LoopExec(IsolatedMarketStates, MaxConcCycles)
    \/ \E m \in IsolatedModelIds : ApiExecute(m, IsolatedMarketStates, MaxConcCycles)
    \/ \E th \in Threads : RequestDecision(th, ConcDecisionMaps)
    \/ \E th \in Threads : CycleStep(th)

SpecIsolated == InitIsolated /\ [][NextIsolated]_vars

\* ------------------------------ the scheduler thread and the end of the process
NextShutdown ==
    \/ ~stopped /\ Next
    \/ Shutdown

SpecShutdown == Init /\ [][NextShutdown]_vars

\* ----------------------------------- trading_loop, whole cycles as single steps
\* the models a user may create while the loop runs
LoopModelIds == 1..3

\* what can go wrong in the body of the for loop: nothing, an exception inside
\* execute_trading_cycle, an exception in the loop body around the call
LoopFaults == { "none", "cycle", "loop" }

\* execute_trading_cycle, lines 31-92: the result it returns
execute_trading_cycle(fault) == IF fault = "cycle" THEN "failed" ELSE "success"

\* the body of the for loop, lines 1256-1276: how it ends for one engine
LoopBody(fault) == IF fault = "loop" THEN "raised" ELSE execute_trading_cycle(fault)

\* a loop whose pass ends with the first exception of its body
AfterAttempt_abort(outcome, queue) == IF outcome = "raised" THEN << >> ELSE Tail(queue)

\* the engines of the pass still to run after the body ended with outcome:
\* `continue` after an exception, the next iteration otherwise
AfterAttempt(outcome, queue) == Tail(queue)

LoopRest ==
    UNCHANGED << cyclesStarted, cycleVars, fetcherVars, limiterVars, callVars, trader, risk,
                 indicator, stopped >>

\* while auto_trading: a pass starts; with no engine it sleeps 30 s and starts
\* the next one, else it takes list(trading_engines.items())
PassStarts ==
    /\ sched.phase = "sleep"
    /\ sched' = [phase |-> IF trading_engines = << >> THEN "sleep" ELSE "for",
                 tick |-> 1 - sched.tick,
                 snapshot |-> trading_engines,
                 attempted |-> << >>]
    /\ loopQueue' = trading_engines
    /\ UNCHANGED << dbVars, trading_engines >>
    /\ LoopRest

\* one iteration of the for loop: the cycle of the next engine of the list
PassAttempt ==
    /\ sched.phase = "for"
    /\ loopQueue # << >>
    /\ \E fault \in LoopFaults :
          /\ sched' = [sched EXCEPT !.attempted =
                          Append(@, [model |-> Head(loopQueue), fault |-> fault,
                                     outcome |-> LoopBody(fault)])]
          /\ loopQueue' = AfterAttempt(LoopBody(fault), loopQueue)
    /\ UNCHANGED << dbVars, trading_engines >>
    /\ LoopRest

\* the for loop is over: time.sleep(180)
PassEnds ==
    /\ sched.phase = "for"
    /\ loopQueue = << >>
    /\ sched' = [sched EXCEPT !.phase = "sleep"]
    /\ UNCHANGED << dbVars, trading_engines, loopQueue >>
    /\ LoopRest

\* app.create_model: the model row and its engine
CreateModel(m) ==
    /\ m \notin DOMAIN models
    /\ \E ic \in InitialCapitals :
          models' = [x \in DOMAIN models \cup {m} |->
                        IF x = m THEN [initial_capital |-> ic] ELSE models[x]]
    /\ trading_engines' = Append(trading_engines, m)
    /\ UNCHANGED << portfolios, trades, account_values, conversations, dbLocked, loopQueue,
                    sched >>
    /\ LoopRest

LoopThread == PassStarts \/ PassAttempt \/ PassEnds

NextLoop ==
    \/ PassStarts
    \/ PassAttempt
    \/ PassEnds
    \/ \E m \in LoopModelIds : CreateModel(m)
    \/ \E m \in LoopModelIds : DeleteModel(m)

InitLoop == Init /\ portfolios = << >>

\* the thread of trading_loop is started once and runs as long as the process:
\* its sleeps end and every cycle returns
SpecLoop == InitLoop /\ [][NextLoop]_vars /\ WF_vars(LoopThread)

\* ------------------------------------ the cache, two callers at once
CallStep(th) ==
    \/ \E r \in CallRequests : CheckCache(th, r)
    \/ SourceAnswers(th)
    \/ SourcesFail(th)
    \/ StoreValue(th)
    \/ StoreTime(th)
    \/ CallOver(th)

NextCalls ==
    \/ \E th \in Threads : CallStep(th)
    \/ Advance(CallDelay)

SpecCalls == InitMarket /\ [][NextCalls]_vars

\* ------------------------------------------------------------------- claims
InCycle(th) == pc[th] \in {"portfolio", "exits", "exit_trade", "decide", "execute",
                           "exec_trade", "reconcile", "record"}

\* the provider has been asked in the cycle th runs, and the cycle goes on
Decided(th) == pc[th] \in {"execute", "exec_trade", "reconcile", "record"}

\* the sum of pnl over the trade log of m, row by row
LogPnl(m) ==
    LET S[i \in 0..Len(trades)] ==
            IF i = 0 THEN 0
            ELSE S[i - 1] + (IF trades[i].model_id = m THEN trades[i].pnl ELSE 0)
    IN S[Len(trades)]

\* the sum of quantity*avg_price/leverage over the stored positions of m
StoredMargin(m) ==
    LET S[i \in 0..Len(portfolios)] ==
            IF i = 0 THEN 0
            ELSE S[i - 1] + (IF portfolios[i].model_id = m
                             THEN (portfolios[i].quantity * portfolios[i].avg_price)
                                      \div portfolios[i].leverage
                             ELSE 0)
    IN S[Len(portfolios)]

\* C1: in every reachable state of the store, the view of every model has
\* cash + margin_used = initial_capital + realized_pnl, with margin_used the sum
\* of quantity*avg_price/leverage over the stored positions and realized_pnl the
\* sum of pnl over the model's trade log; the views a cycle holds satisfy the
\* same identity.
C1_LedgerIdentity ==
    /\ \A m \in DOMAIN models :
         LET v == get_portfolio(models, portfolios, trades, m, << >>)
         IN /\ v.margin_used = StoredMargin(m)
            /\ v.realized_pnl = LogPnl(m)
            /\ v.cash + v.margin_used = models[m].initial_capital + v.realized_pnl
    /\ \A th \in Threads, m \in DOMAIN models :
         /\ portfolio[th].model_id = m =>
              portfolio[th].cash + portfolio[th].margin_used
                 = models[m].initial_capital + portfolio[th].realized_pnl
         /\ updated_portfolio[th].model_id = m =>
              updated_portfolio[th].cash + updated_portfolio[th].margin_used
                 = models[m].initial_capital + updated_portfolio[th].realized_pnl

\* a model with a stored position, realized pnl from a close, and a cycle that
\* has taken its closing view
C1_Witness ==
    \E m \in DOMAIN models, th \in Threads :
        /\ StoredMargin(m) > 0
        /\ LogPnl(m) # 0
        /\ updated_portfolio[th].model_id = m
        /\ updated_portfolio[th].margin_used > 0

\* C2: no two threads are inside a trading cycle (between FetchMarket and
\* Reconcile) of the same model at the same time.
C2_NoConcurrentCycles ==
    \A t1, t2 \in Threads :
        (t1 # t2 /\ InCycle(t1) /\ InCycle(t2)) => model[t1] # model[t2]

\* C3: the portfolio view handed to the provider holds no position that the
\* exits of the same cycle have closed.
C3_ProviderSeesPostExitState ==
    \A th \in Threads :
        Decided(th) =>
            \A i \in 1..Len(ProviderView(th).positions), j \in 1..Len(stop_results[th]) :
                ~(/\ ProviderView(th).positions[i].coin = stop_results[th][j].coin
                  /\ ProviderView(th).positions[i].side = stop_results[th][j].side)

EntrySignals == {"buy_to_enter", "sell_to_enter"}

\* the positions of the view of line 37 that the exits have to close
Triggered(th, i) ==
    LET p == portfolio[th].positions[i]
    IN p.coin \in DOMAIN market_state[th] /\ ShouldClose(p, market_state[th][p.coin])

ExitApplied(th, i) ==
    \E j \in 1..Len(stop_results[th]) :
        /\ stop_results[th][j].coin = portfolio[th].positions[i].coin
        /\ stop_results[th][j].side = portfolio[th].positions[i].side

\* C4: within one cycle the steps come in the order EvaluateExits,
\* RequestDecision, ValidateAndExecute, Reconcile: the provider is asked only
\* when every triggered position has been closed and its trade recorded, no
\* decision is applied before the provider has returned, and the snapshot is
\* taken and appended only when every pair of the decision map has its result.
C4_StepOrder ==
    \A th \in Threads :
        /\ (pc[th] = "decide" \/ Decided(th) \/ result[th] = "success") =>
              \A i \in 1..Len(portfolio[th].positions) : Triggered(th, i) => ExitApplied(th, i)
        /\ pc[th] \in {"portfolio", "exits", "exit_trade", "decide"} =>
              /\ decisions[th] = << >>
              /\ execution_results[th] = << >>
              /\ pendingTrade[th].signal \notin EntrySignals \cup {"close_position"}
              /\ recorded[th] = 0
        /\ Len(execution_results[th]) <= Len(decisions[th])
        /\ (pc[th] \in {"reconcile", "record"} \/ recorded[th] > 0) =>
              /\ decIdx[th] = Len(decisions[th]) + 1
              /\ Len(execution_results[th]) = Len(decisions[th])

\* a cycle that closed a triggered position, applied the second of two decisions
\* and appended its snapshot
C4_Witness ==
    \E th \in Threads :
        /\ result[th] = "success"
        /\ recorded[th] = 1
        /\ stop_results[th] # << >>
        /\ Len(decisions[th]) = 2
        /\ execution_results[th][2].kind \in EntrySignals

\* C5: a cycle whose per-coin work has started ends with its snapshot appended,
\* whatever the per-coin executions did (the model still being there).
C5_ReconcileAlwaysHappens ==
    \A th \in Threads :
        (pc[th] = "done" /\ decisions[th] # << >> /\ model[th] \in DOMAIN models)
            => recorded[th] = 1

\* C6 as stated: every execution of a cycle ends with exactly one snapshot appended.
C6_EveryCycleAppendsOneSnapshot ==
    \A th \in Threads : pc[th] = "done" => recorded[th] = 1

\* C6, amended: a cycle that ends with success appends exactly one snapshot row,
\* for its model, in the step that ends it; a cycle that ends failed appends
\* none; the rows already there stay as they are, and leave the table only when
\* their model is deleted.
C6_OneSnapshotPerSuccessfulCycle ==
    [][ /\ \A th \in Threads :
             (pc[th] # "done" /\ pc'[th] = "done") =>
                 IF result'[th] = "success"
                 THEN /\ recorded[th] = 0
                      /\ Len(account_values') = Len(account_values) + 1
                      /\ SubSeq(account_values', 1, Len(account_values)) = account_values
                      /\ account_values'[Len(account_values')].model_id = model[th]
                 ELSE account_values' = account_values
        /\ account_values' # account_values =>
             \/ \E th \in Threads :
                    pc[th] # "done" /\ pc'[th] = "done" /\ result'[th] = "success"
             \/ \E m \in DOMAIN models :
                    /\ m \notin DOMAIN models'
                    /\ account_values' = SelectSeq(account_values, LAMBDA r : r.model_id # m)
      ]_vars

\* a cycle has ended with success and its snapshot stands behind an earlier one
C6_Witness ==
    \E th \in Threads :
        /\ pc[th] = "done"
        /\ result[th] = "success"
        /\ recorded[th] = 1
        /\ Len(account_values) >= 2
        /\ account_values[Len(account_values)].model_id = model[th]

\* a quantity that is a finite number in (0, 1000] and a leverage that is an
\* integer within [MIN_LEVERAGE, MAX_LEVERAGE]
WithinLimits(d) ==
    /\ d.quantity.t = "num"
    /\ d.quantity.n > 0
    /\ d.quantity.n <= MAX_QUANTITY * d.quantity.d
    /\ d.leverage.t = "num"
    /\ d.leverage.n % d.leverage.d = 0
    /\ d.leverage.n >= MIN_LEVERAGE * d.leverage.d
    /\ d.leverage.n <= MAX_LEVERAGE * d.leverage.d

\* the k-th pair of the decision map is an entry that passes every check
ValidEntryAt(th, k) ==
    LET e == decisions[th][k]
    IN /\ Lower(e.d.signal) \in EntrySignals
       /\ WithinLimits(e.d)
       /\ EntryCheck(e.d, market_state[th], e.coin, portfolio[th].cash) = "apply"

\* C7: when a cycle is over, every valid entry of its decision map has been
\* applied and has its trade, whatever happened to the other coins of the map
\* (the model still being there).
C7_PerCoinIsolation ==
    \A th \in Threads :
        (pc[th] = "done" /\ model[th] \in DOMAIN models) =>
            \A k \in 1..Len(decisions[th]) :
                ValidEntryAt(th, k) =>
                    \E j \in 1..Len(execution_results[th]) :
                        execution_results[th][j] =
                            Result(decisions[th][k].coin, Lower(decisions[th][k].d.signal))

\* the thread takes one pass of the loop of _execute_decisions in this step
ExecutesPair(th) ==
    /\ pc[th] = "execute"
    /\ pc'[th] # "execute" \/ decIdx'[th] # decIdx[th]

\* the entry of the k-th pair has been written to the store
EntryAppliedAt(th, k) ==
    \/ k <= Len(execution_results[th]) /\ execution_results[th][k].kind \in EntrySignals
    \/ k = decIdx[th] /\ pc[th] = "exec_trade" /\ pendingTrade[th].signal \in EntrySignals

\* C8: an entry is written only for a decision whose quantity is a finite number
\* in (0, 1000] and whose leverage is an integer within the leverage bounds.
C8_EntryOnlyWithinLimits ==
    \A th \in Threads :
        \A k \in 1..Len(decisions[th]) :
            EntryAppliedAt(th, k) => WithinLimits(decisions[th][k].d)

\* the pair at decIdx is an entry that passes the validation of quantity and leverage
ValidatedEntry(th) ==
    LET e == decisions[th][decIdx[th]]
    IN /\ Lower(e.d.signal) \in EntrySignals
       /\ CanFloat(e.d.quantity) /\ ~IsNaN(e.d.quantity)
       /\ CanInt(e.d.leverage)
       /\ e.coin \in DOMAIN market_state[th]
       /\ ~QuantityRejected(e.d.quantity)
       /\ ~LeverageRejected(PyInt(e.d.leverage))

\* C9: a validated entry whose margin quantity*price/leverage exceeds the cash
\* the ledger has at that moment is rejected as insufficient and writes nothing;
\* otherwise its position is upserted and a trade with pnl 0 follows.
C9_EntryAgainstCurrentCash ==
    [][ \A th \in Threads :
          (ExecutesPair(th) /\ ValidatedEntry(th) /\ model[th] \in DOMAIN models /\ ~dbLocked) =>
             LET e == decisions[th][decIdx[th]]
                 price == market_state[th][e.coin]
                 quantity == FloatVal(e.d.quantity)
                 leverage == PyInt(e.d.leverage)
                 cash == get_portfolio(models, portfolios, trades, model[th],
                                       market_state[th]).cash
             IN IF RequiredMargin(quantity, price, leverage) > cash
                THEN /\ portfolios' = portfolios
                     /\ pc'[th] # "exec_trade"
                     /\ execution_results'[th] =
                            Append(execution_results[th], Result(e.coin, "insufficient"))
                ELSE /\ pc'[th] = "exec_trade"
                     /\ pendingTrade'[th].pnl = 0
                     /\ portfolios' = update_position(portfolios,
                            PositionRow(model[th], e.coin, quantity, price, leverage,
                                        SeedSide(e.d), e.d.stop_loss, e.d.take_profit))
      ]_vars

\* C10: a hold, an unknown signal, and a close_position for a coin of which the
\* model stores no position leave positions and trade log as they are and write
\* no trade; the last two are reported as an error for that coin.
C10_NoTradeLeavesLedger ==
    [][ \A th \in Threads :
          (/\ ExecutesPair(th)
           /\ model[th] \in DOMAIN models
           /\ decisions[th][decIdx[th]].d.signal # JsonNull) =>
             LET e == decisions[th][decIdx[th]]
                 signal == Lower(e.d.signal)
                 stored == \E i \in 1..Len(portfolios) :
                              portfolios[i].model_id = model[th] /\ portfolios[i].coin = e.coin
                 reports == IF signal = "hold" THEN {"hold"}
                            ELSE {"not_found", "unknown_signal", "exception"}
             IN (signal \notin EntrySignals /\ ~(signal = "close_position" /\ stored)) =>
                   /\ portfolios' = portfolios
                   /\ trades' = trades
                   /\ pc'[th] # "exec_trade"
                   /\ \E kind \in reports :
                          execution_results'[th] =
                              Append(execution_results[th], Result(e.coin, kind))
      ]_vars

\* a step that appends an entry and the close that follows it
RoundTripStep ==
    /\ Len(trades') = Len(trades) + 2
    /\ SubSeq(trades', 1, Len(trades)) = trades

\* the round trip of the step: realized pnl 0, no position under the key of the
\* entry left, cash and total_value as before the entry
RoundTripLaw ==
    LET n == Len(trades')
        open == trades'[n - 1]
        close == trades'[n]
        ms == OneCoinMarket(open.coin, open.price)
        before == get_portfolio(models, portfolios, trades, open.model_id, ms)
        after == get_portfolio(models', portfolios', trades', open.model_id, ms)
    IN /\ open.pnl + close.pnl = 0
       /\ after.realized_pnl = before.realized_pnl
       /\ ~\E i \in 1..Len(portfolios') :
              /\ portfolios'[i].model_id = open.model_id
              /\ portfolios'[i].coin = open.coin
              /\ portfolios'[i].side = open.side
       /\ after.cash = before.cash
       /\ after.total_value = before.total_value

\* C11 as stated: from every ledger state, opening a position and closing it at
\* once at the same price records realized pnl 0, leaves no position behind and
\* returns cash and total_value to their values before the open.
C11_RoundTripFromAnyLedger ==
    [][RoundTripStep => RoundTripLaw]_vars

\* C11, amended: the same, when the model stores no position of that coin
\* before the open.
C11_RoundTripOfNewPosition ==
    [][ (/\ RoundTripStep
         /\ ~\E i \in 1..Len(portfolios) :
                /\ portfolios[i].model_id = trades'[Len(trades')].model_id
                /\ portfolios[i].coin = trades'[Len(trades')].coin)
        => RoundTripLaw ]_vars

\* a short was opened at price 1 and closed at once at 1, next to a position of
\* the other coin that is still stored
C11_Witness ==
    /\ Len(trades) >= 3
    /\ LET n == Len(trades)
       IN /\ trades[n].signal = "close_position"
          /\ trades[n - 1].signal = "sell_to_enter"
          /\ trades[n].coin = trades[n - 1].coin
          /\ trades[n].side = "short" /\ trades[n - 1].side = "short"
          /\ trades[n].price = 1 /\ trades[n - 1].price = 1
          /\ trades[n].pnl = 0
          /\ \E i \in 1..Len(portfolios) : portfolios[i].coin # trades[n].coin
          /\ ~\E i \in 1..Len(portfolios) : portfolios[i].coin = trades[n].coin

\* the thread writes the position of the entry at decIdx in this step
WritesEntry(th) ==
    /\ pc[th] = "execute"
    /\ pc'[th] = "exec_trade"
    /\ pendingTrade'[th].signal \in EntrySignals

\* the arguments of the update_position call of the entry at decIdx
EntryArguments(th) ==
    LET e == decisions[th][decIdx[th]]
    IN [model_id |-> model[th], coin |-> e.coin,
        quantity |-> FloatVal(e.d.quantity),
        avg_price |-> market_state[th][e.coin],
        leverage |-> PyInt(e.d.leverage),
        side |-> IF Lower(e.d.signal) = "buy_to_enter" THEN "long" ELSE "short",
        stop_loss |-> e.d.stop_loss, take_profit |-> e.d.take_profit]

\* the rows of a table that do not have the key of row
OtherKeys(table, row) ==
    SelectSeq(table, LAMBDA r : ~(r.model_id = row.model_id /\ r.coin = row.coin
                                   /\ r.side = row.side))

\* C12: after the position write of an entry there is exactly one stored position
\* with the key (model, coin, side), its fields are the arguments of the call
\* whatever was stored under the key before, and the rows of other keys are as
\* they were.
C12_UpsertReplaces ==
    [][ \A th \in Threads :
          WritesEntry(th) =>
             LET args == EntryArguments(th)
                 same == { i \in 1..Len(portfolios') :
                             /\ portfolios'[i].model_id = args.model_id
                             /\ portfolios'[i].coin = args.coin
                             /\ portfolios'[i].side = args.side }
             IN /\ Cardinality(same) = 1
                /\ \A i \in same : portfolios'[i] = args
                /\ OtherKeys(portfolios', args) = OtherKeys(portfolios, args)
      ]_vars

\* an entry has been written over a position of the same key that an earlier
\* entry opened at another price, with a position of another key stored
C12_Witness ==
    \E th \in Threads :
        /\ pc[th] = "exec_trade"
        /\ pendingTrade[th].signal \in EntrySignals
        /\ Len(portfolios) = 2
        /\ \E i \in 1..Len(trades) :
              /\ trades[i].signal = pendingTrade[th].signal
              /\ trades[i].model_id = pendingTrade[th].model_id
              /\ trades[i].coin = pendingTrade[th].coin
              /\ trades[i].side = pendingTrade[th].side
              /\ trades[i].price # pendingTrade[th].price
        /\ \A i \in 1..Len(trades) : trades[i].pnl = 0 /\ trades[i].signal \in EntrySignals

\* the log t2 is the log t1 with at most one row added at its end
Extends(t1, t2) ==
    /\ Len(t2) \in {Len(t1), Len(t1) + 1}
    /\ SubSeq(t2, 1, Len(t1)) = t1

\* the realized_pnl of the view of every model is the sum of pnl over its log
RealizedPnlIsLogSum ==
    \A m \in DOMAIN models :
        get_portfolio(models, portfolios, trades, m, << >>).realized_pnl = LogPnl(m)

\* C13 as stated: after any operation every trade ever appended is still there,
\* unchanged, and trades are only added at the end of the log.
C13_TradeLogOnlyGrows ==
    [][Extends(trades, trades')]_vars

\* C13, amended: every step leaves the trade log as it is or adds one row at its
\* end, except the deletion of a model, which removes the rows of that model
\* and no others; the realized_pnl of the view of a model is the sum of pnl over
\* its rows of the log.
C13_TradeLogAppendOnlyPerModel ==
    /\ [][ IF DOMAIN models' = DOMAIN models
           THEN Extends(trades, trades')
           ELSE \E m \in DOMAIN models \ DOMAIN models' :
                   trades' = SelectSeq(trades, LAMBDA r : r.model_id # m) ]_vars
    /\ []RealizedPnlIsLogSum

\* the log of a model that is there holds an entry, a close with pnl and a
\* later entry
C13_Witness ==
    \E m \in DOMAIN models :
        /\ Len(trades) >= 3
        /\ \A i \in 1..Len(trades) : trades[i].model_id = m
        /\ trades[2].pnl # 0
        /\ trades[3].signal \in EntrySignals
        /\ get_portfolio(models, portfolios, trades, m, << >>).realized_pnl = trades[2].pnl

\* ---- C14
\* a step of a cycle that closes a position: the close_position call of an exit
\* or of a close_position decision, whose trade is still to be written
ClosesPosition(th) ==
    /\ pendingTrade[th] = NoTrade
    /\ pendingTrade'[th].signal \in {"auto_close", "close_position"}

\* C14: every stored position has quantity > 0 and avg_price > 0 in every
\* reachable state, and a close removes the row of its key instead of leaving
\* it with quantity 0
C14_StoredPositionsPositive ==
    /\ [][ \A th \in Threads :
              ClosesPosition(th) =>
                 \A i \in 1..Len(portfolios') :
                    ~SameKey(portfolios'[i], pendingTrade'[th]) ]_vars
    /\ [](\A i \in 1..Len(portfolios) :
             portfolios[i].quantity > 0 /\ portfolios[i].avg_price > 0)

\* a close_position decision has removed the only stored position while another
\* position, opened in this cycle, is stored
C14_Witness ==
    /\ pc["loop"] = "exec_trade"
    /\ pendingTrade["loop"].signal = "close_position"
    /\ Len(portfolios) = 1
    /\ portfolios[1].coin # pendingTrade["loop"].coin

\* ---- C15
Sign(side) == IF side = "long" THEN 1 ELSE -1

\* sign(side) * (current_price - avg_price) * quantity over the rows of model m
\* from index i on whose coin has a current price
RECURSIVE PricedPnl(_, _, _, _)
PricedPnl(rows, i, m, current_prices) ==
    IF i > Len(rows) THEN 0
    ELSE (IF rows[i].model_id = m /\ rows[i].coin \in DOMAIN current_prices
          THEN Sign(rows[i].side) * (current_prices[rows[i].coin] - rows[i].avg_price)
               * rows[i].quantity
          ELSE 0)
         + PricedPnl(rows, i + 1, m, current_prices)

\* C15: for every price map, the view of a model reports total_value =
\* initial_capital + realized_pnl + unrealized_pnl, where unrealized_pnl is the
\* sum of sign(side) * (current_price - avg_price) * quantity over exactly the
\* positions whose coin has a current price; a position without one reports a
\* null current price and a pnl of 0
C15_SnapshotValuation ==
    \A m \in DOMAIN models : \A ms \in MarketStates :
        LET view == get_portfolio(models, portfolios, trades, m, ms)
        IN /\ view.total_value
                 = models[m].initial_capital + view.realized_pnl + view.unrealized_pnl
           /\ view.unrealized_pnl = PricedPnl(portfolios, 1, m, ms)
           /\ Len(view.positions) = Len(OfModel(portfolios, m))
           /\ \A i \in 1..Len(view.positions) :
                 LET p == view.positions[i]
                 IN IF p.coin \in DOMAIN ms
                    THEN /\ p.current_price = Some(ms[p.coin])
                         /\ p.pnl = Sign(p.side) * (ms[p.coin] - p.avg_price) * p.quantity
                    ELSE p.current_price = None /\ p.pnl = 0

\* two positions are stored, and under some price map one of them has a quote
\* and a pnl other than 0 while the other has no quote
C15_Witness ==
    \E m \in DOMAIN models : \E ms \in MarketStates :
        LET view == get_portfolio(models, portfolios, trades, m, ms)
        IN /\ Len(view.positions) = 2
           /\ view.unrealized_pnl # 0
           /\ \E i \in 1..2 : view.positions[i].current_price = None

\* ---- C16
\* the steps of a cycle that read the model row or the view of the model
ReadsModel(th) == pc[th] \in {"portfolio", "decide", "reconcile"}

\* every position, trade and snapshot row of the tables belongs to a model of tm
NoOrphanRows(tm, tp, tt, ta) ==
    /\ \A i \in 1..Len(tp) : tp[i].model_id \in DOMAIN tm
    /\ \A i \in 1..Len(tt) : tt[i].model_id \in DOMAIN tm
    /\ \A i \in 1..Len(ta) : ta[i].model_id \in DOMAIN tm

\* C16: a step of a cycle whose model no longer exists does not fail the cycle
\* and does not create a position, trade or snapshot row for that model
C16_MissingModelIsHarmless ==
    [][ \A th \in Threads :
          (InCycle(th) /\ model[th] \notin DOMAIN models) =>
             /\ (ReadsModel(th) /\ ~dbLocked) => result'[th] # "failed"
             /\ NoOrphanRows(models, portfolios, trades, account_values) =>
                   NoOrphanRows(models', portfolios', trades', account_values')
      ]_vars

\* the model was deleted while its cycle was executing decisions, and the cycle
\* has stored a position for it
C16_Witness ==
    /\ InCycle("loop")
    /\ model["loop"] \notin DOMAIN models
    /\ \E i \in 1..Len(portfolios) : portfolios[i].model_id = model["loop"]

\* ---- C17
\* a trigger of the position fires at price: long, price <= stop_loss or
\* price >= take_profit; short, price >= stop_loss or price <= take_profit.
\* Defined(x) says which stored values count as a defined trigger
Fires(p, price, Defined(_)) ==
    \/ /\ Defined(p.stop_loss)
       /\ IF p.side = "long" THEN price <= p.stop_loss[1] ELSE price >= p.stop_loss[1]
    \/ /\ Defined(p.take_profit)
       /\ IF p.side = "long" THEN price >= p.take_profit[1] ELSE price <= p.take_profit[1]

NotNull(x) == x # None

NotNullNorZero(x) == x # None /\ x[1] # 0

\* the exits of the cycle of th are done and the provider is about to be called:
\* of the positions of the cycle's view, exactly those whose coin has a price and
\* whose trigger fires have been closed; each of them has no stored row and one
\* auto_close trade with pnl = sign(side) * (price - avg_price) * quantity among
\* the last trades of the log, the others are stored as they were
ExitsSettled(th, Defined(_)) ==
    LET view == portfolio[th].positions
        ms == market_state[th]
        due == { j \in 1..Len(view) :
                   view[j].coin \in DOMAIN ms /\ Fires(view[j], ms[view[j].coin], Defined) }
        n == Cardinality(due)
    IN /\ Len(stop_results[th]) = n
       /\ Len(trades) >= n
       /\ \A j \in due :
             /\ \A i \in 1..Len(portfolios) :
                   ~(portfolios[i].model_id = model[th] /\ portfolios[i].coin = view[j].coin
                     /\ portfolios[i].side = view[j].side)
             /\ Cardinality({ k \in (Len(trades) - n + 1)..Len(trades) :
                    trades[k] = TradeRow(model[th], view[j].coin, "auto_close",
                                         view[j].quantity, ms[view[j].coin],
                                         view[j].leverage, view[j].side,
                                         Sign(view[j].side)
                                         * (ms[view[j].coin] - view[j].avg_price)
                                         * view[j].quantity) }) = 1
       /\ \A j \in (1..Len(view)) \ due :
             \E i \in 1..Len(portfolios) :
                portfolios[i] = PositionRow(model[th], view[j].coin, view[j].quantity,
                                            view[j].avg_price, view[j].leverage,
                                            view[j].side, view[j].stop_loss,
                                            view[j].take_profit)

\* C17 as stated: a position is auto-closed if and only if its coin has a current
\* price and a trigger that is not null fires
C17_ExitsIffTriggerNotNull ==
    \A th \in Threads : pc[th] = "decide" => ExitsSettled(th, NotNull)

\* C17: when the provider is about to be called, a position of the cycle's view
\* has been auto-closed if and only if its coin has a current price and a trigger
\* that is neither null nor 0 fires; each auto-closed position is deleted and has
\* exactly one auto_close trade with pnl = sign(side) * (price - avg_price) *
\* quantity, and the other positions are untouched
C17_ExitsIffTriggerSet ==
    \A th \in Threads : pc[th] = "decide" => ExitsSettled(th, NotNullNorZero)

\* the provider is about to be called in a cycle that found two positions: one
\* was auto-closed at a loss or a gain, the other has a take_profit of 0 and stays
C17_Witness ==
    /\ pc["loop"] = "decide"
    /\ Len(portfolio["loop"].positions) = 2
    /\ Len(stop_results["loop"]) = 1
    /\ stop_results["loop"][1].pnl # 0
    /\ Len(portfolios) = 1
    /\ portfolios[1].take_profit = Some(0)
    /\ portfolios[1].coin \in DOMAIN market_state["loop"]

\* ---- C18
\* the answer holds data for every coin of the request
Complete(answer, r) ==
    IF r.kind = "prices"
    THEN answer # None /\ DOMAIN answer = Range(r.coins)
    ELSE answer # None /\ Len(answer) >= 1

\* this step serves a request that finds no fresh entry in the cache
MissStep ==
    /\ request = NoRequest
    /\ request' # NoRequest
    /\ ~(/\ KeyOf(request') \in DOMAIN cache
         /\ now - cache_time[KeyOf(request')] < FreshAge(request'))

\* the adapters whose answer is complete, by their place in the order of calls
Winners == { i \in 1..Len(source_answers') : Complete(source_answers'[i], request') }

\* C18: on a cache miss the sources are called in their order up to the first
\* one that answers for all requested coins; its answer is the reply and the
\* new cache entry, written at the time of the call; when no source does so,
\* the cache is left as it was and the reply is the cached entry or empty, never
\* an answer of a source; entries of other keys are not touched, and no price
\* entry of the cache ever lacks a coin of its key
C18_FirstCompleteSourceWins ==
    /\ [][ MissStep =>
             LET key == KeyOf(request')
                 sources == IF request'.kind = "prices" THEN PriceSources ELSE HistorySources
             IN /\ Len(source_answers') \in 1..Len(sources)
                /\ IF Winners # {}
                   THEN /\ Winners = { Len(source_answers') }
                        /\ reply' = source_answers'[Len(source_answers')]
                        /\ key \in DOMAIN cache'
                        /\ cache'[key] = reply'
                        /\ cache_time'[key] = now
                   ELSE /\ Len(source_answers') = Len(sources)
                        /\ cache' = cache
                        /\ cache_time' = cache_time
                        /\ reply' \in {<< >>} \cup { cache[k] : k \in DOMAIN cache \cap {key} }
                /\ \A k \in DOMAIN cache' \ {key} : k \in DOMAIN cache /\ cache'[k] = cache[k]
         ]_vars
    /\ [](\A k \in DOMAIN cache :
             k[1] = "prices" => DOMAIN cache[k] = { k[i] : i \in 2..Len(k) })

\* a price request found an entry too old to be fresh; the first source failed,
\* the second answered for one coin only, the third for both: its answer is the
\* reply and has replaced the entry
C18_Witness ==
    /\ request.kind = "prices"
    /\ Len(source_answers) = 3
    /\ source_answers[1] = None
    /\ source_answers[2] # None
    /\ DOMAIN source_answers[2] # Range(request.coins)
    /\ reply = source_answers[3]
    /\ cache[KeyOf(request)] = reply
    /\ cache_time[KeyOf(request)] = now
    /\ now > 0

C21_WriteThrough ==
    [][ (MissStep /\ Winners # {}) =>
          /\ cache_file' # None
          /\ KeyOf(request') \in DOMAIN cache_file'[1].cache
          /\ cache_file'[1].cache[KeyOf(request')] = reply'
          /\ cache_file'[1].cache_time[KeyOf(request')] = now
      ]_vars

\* a price request took the answer of a source, and no cache file exists
C21_Witness ==
    /\ request.kind = "prices"
    /\ source_answers # << >>
    /\ Complete(source_answers[Len(source_answers)], request)
    /\ reply = source_answers[Len(source_answers)]
    /\ cache_file = None

\* ---- C22
\* the time between a network call that starts now and the one before it to the
\* same source is at least the minimum interval of the source
SpacedFromLast(source) ==
    source \in DOMAIN last_call =>
        clock - last_call[source].time >= min_request_interval[source]

\* C22: every network call a single caller makes comes directly after the
\* rate-limit check of its source, and starts at least the minimum interval of the
\* source after the call before it to that source
C22_RateLimitBeforeEveryCall ==
    [][ NetworkCall("loop") =>
          /\ limiter["loop"].checked
          /\ SpacedFromLast(limiter["loop"].adapter[1].source)
      ]_vars

\* the single caller has made two network calls to one source at the same time,
\* the second without a rate-limit check
C22_Witness ==
    \E source \in DOMAIN last_call :
        /\ ~last_call[source].checked
        /\ last_call[source].time = clock
        /\ source \in DOMAIN last_request_time
        /\ clock - last_request_time[source] < min_request_interval[source]

\* ---- C23
\* C23: with two callers at once, a network call that comes directly after its
\* rate-limit check starts at least the minimum interval of the source after the
\* call before it to that source, where that one came directly after its check too
C23_SpacedUnderConcurrency ==
    [][ \A th \in Threads :
          ( /\ NetworkCall(th)
            /\ limiter[th].checked
            /\ limiter[th].adapter[1].source \in DOMAIN last_call
            /\ last_call[limiter[th].adapter[1].source].checked )
          => SpacedFromLast(limiter[th].adapter[1].source)
      ]_vars

\* both callers have passed the rate-limit check of the same source and neither
\* has stamped the time of its call yet
C23_Witness ==
    /\ limiter["loop"].pc = "request"
    /\ limiter["api"].pc = "request"
    /\ limiter["loop"].checked
    /\ limiter["api"].checked
    /\ limiter["loop"].adapter = limiter["api"].adapter
    /\ limiter["loop"].wake = limiter["api"].wake

\* ---- C24
\* the entry of cache_key has a timestamp, written by the call that wrote the
\* value, and that call is not between its two writes
Bookkept(cache_key) ==
    /\ cache_key \in DOMAIN cache_time
    /\ time_by[cache_key] = value_by[cache_key]
    /\ ~( /\ call[value_by[cache_key]].pc = "stamp"
          /\ KeyOf(call[value_by[cache_key]].request) = cache_key )

\* C24: with two callers at once, a call that tests the cache for a fresh entry
\* finds, for a key that has a value, the timestamp written with that value, and
\* the test does not fail on a missing timestamp
C24_TimestampWithEveryValue ==
    [][ \A th \in Threads : \A r \in CallRequests :
          (CheckCache(th, r) /\ KeyOf(r) \in DOMAIN cache) =>
              /\ Bookkept(KeyOf(r))
              /\ call'[th].pc # "raised"
      ]_vars

\* a call has failed with KeyError on the timestamp of a key that has a value
C24_Witness ==
    \E th \in Threads :
        /\ call[th].pc = "raised"
        /\ KeyOf(call[th].request) \in DOMAIN cache
        /\ KeyOf(call[th].request) \notin DOMAIN cache_time

\* no call is in progress and the cache holds a value of one call with the
\* timestamp of another
C24_MixedEntry ==
    /\ \A th \in Threads : call[th].pc = "idle"
    /\ \E cache_key \in DOMAIN cache :
          /\ cache_key \in DOMAIN cache_time
          /\ time_by[cache_key] # value_by[cache_key]

\* ---- C25
\* the entries of the cache that answer request r: for prices the entry of the
\* same set of coins, for history the entry of the same coin and days
EntriesFor(r) ==
    IF r.kind = "prices"
    THEN { k \in DOMAIN cache : k[1] = "prices" /\ Range(Tail(k)) = Range(r.coins) }
    ELSE { k \in DOMAIN cache : k = HistoricalKey(r.coins[1], r.days) }

\* a call starts in this step
CallStarts == request = NoRequest /\ request' # NoRequest

C26_CallsNeverRaise ==
    \A th \in Threads : call[th].pc # "raised"

\* a history call has ended with an exception while the other thread was
\* between the two writes of the entry for the same coin and days
C26_Witness ==
    \E th \in Threads : \E other \in Threads \ {th} :
        /\ call[th].pc = "raised"
        /\ call[th].request.kind = "historical"
        /\ call[other].pc = "stamp"
        /\ call[other].request = call[th].request

\* ---- C27
\* the attempts that give a decision map that is not empty
Deciding(answers) ==
    { i \in 1..Len(answers) : ~answers[i].raises /\ parse_response(answers[i].text) # << >> }

\* the attempts that give a text
Texts(answers) == { i \in 1..Len(answers) : ~answers[i].raises }

Least(S) == CHOOSE i \in S : \A j \in S : i <= j
Greatest(S) == CHOOSE i \in S : \A j \in S : i >= j

\* a call that returned made no more than three attempts, stopped at the first
\* one with a decision map that is not empty and returned that map with its
\* text, and after three attempts without such a map it returned the empty map
\* with the text received last
AttemptsContract ==
    trader.result # None /\ ~trader.result[1].raised =>
        LET r == trader.result[1]
            answers == trader.answers
        IN /\ r.attempts <= max_retries
           /\ IF Deciding(answers) # {}
              THEN /\ r.attempts = Least(Deciding(answers))
                   /\ r.decisions = parse_response(answers[r.attempts].text)
                   /\ r.raw_response = answers[r.attempts].text
              ELSE /\ r.attempts = max_retries
                   /\ r.decisions = << >>
                   /\ r.raw_response = IF Texts(answers) = {} THEN ""
                                       ELSE answers[Greatest(Texts(answers))].text

\* C27: a call of the decision provider ends without an exception, after at most
\* three attempts, at the first attempt that gives a decision map that is not
\* empty, or after three failed attempts with the empty map and the last text
C27_AtMostThreeAttemptsNoException ==
    /\ trader.result # None => ~trader.result[1].raised
    /\ AttemptsContract

\* the call ended with an exception before its first attempt, although the
\* model would have answered with a decision
C27_Witness ==
    /\ trader.result # None
    /\ trader.result[1].raised
    /\ trader.result[1].attempts = 0
    /\ Deciding(trader.answers) # {}

\* ---- C28
\* the cycle of th gets the answer of its provider in this step
GetsDecision(th) == pc[th] = "decide" /\ pc'[th] # "decide" /\ result'[th] # "failed"

\* the store can be written and holds the model of th
StoreUsable(th) == ~dbLocked /\ model[th] \in DOMAIN models

\* C28: the step in which a cycle gets the decision map of its provider appends one
\* conversation record when the map is not empty and none when it is empty; after
\* an empty map the cycle goes on to the valuation without executing a decision
\* or writing a position or a trade, and appends its snapshot
C28_ConversationIffDecisions ==
    /\ [][ \A th \in Threads :
             /\ (pc[th] = "decide" /\ pc'[th] # "decide") =>
                  \/ conversations' = conversations
                  \/ /\ conversations' =
                          Append(conversations,
                                 [model_id |-> model[th], coins |-> Len(decisions'[th])])
                     /\ decisions'[th] # << >>
             /\ (GetsDecision(th) /\ decisions'[th] # << >>) =>
                  Len(conversations') = Len(conversations) + 1
             /\ (GetsDecision(th) /\ decisions'[th] = << >>) =>
                  /\ conversations' = conversations
                  /\ pc'[th] = "reconcile"
             /\ (pc[th] = "reconcile" /\ decisions[th] = << >> /\ StoreUsable(th)
                   /\ pc'[th] # "reconcile") =>
                  pc'[th] = "record"
             /\ (pc[th] = "record" /\ decisions[th] = << >> /\ StoreUsable(th)
                   /\ pc'[th] # "record") =>
                  /\ Len(account_values') = Len(account_values) + 1
                  /\ result'[th] = "success"
         ]_vars
    /\ [](\A th \in Threads :
             (pc[th] \in {"reconcile", "record", "done"} /\ decisions[th] = << >>) =>
                 /\ execution_results[th] = << >>
                 /\ pendingTrade[th] = NoTrade)

\* a cycle whose provider gave the empty map has appended its snapshot, and the
\* store holds no conversation
C28_Witness ==
    /\ pc["loop"] = "done"
    /\ result["loop"] = "success"
    /\ decisions["loop"] = << >>
    /\ recorded["loop"] = 1
    /\ conversations = << >>
    /\ account_values # << >>

\* ---- C29
RECURSIVE ModelsOf(_)
ModelsOf(attempts) ==
    IF attempts = << >> THEN << >>
    ELSE << Head(attempts).model >> \o ModelsOf(Tail(attempts))

\* C29: an exception inside a cycle comes back as a failed result and is not
\* raised; every pass of the loop attempts a cycle for each engine it found at
\* its start, in their order, whatever the attempts before it ended with; and
\* after every pass another one starts
C29_FailuresContained ==
    /\ [](\A i \in 1..Len(sched.attempted) :
             sched.attempted[i].fault = "cycle" => sched.attempted[i].outcome = "failed")
    /\ [](ModelsOf(sched.attempted) \o loopQueue = sched.snapshot)
    /\ []<>(sched.tick = 0)
    /\ []<>(sched.tick = 1)

\* a pass over three engines is over: the first cycle failed, the body of the
\* second raised, and the third was still attempted
C29_Witness ==
    /\ sched.phase = "sleep"
    /\ Len(sched.attempted) = 3
    /\ sched.attempted[1].outcome = "failed"
    /\ sched.attempted[2].outcome = "raised"
    /\ sched.attempted[3].outcome = "success"

\* ---- C30
\* the rows written last, the latest first
LatestFirst(rows) == [i \in 1..Len(rows) |-> rows[Len(rows) + 1 - i]]

\* the priority rule over the snapshots in the order they were written and the
\* five trades written last
PauseRule(snapshots, rows, pf) ==
    LET values == [i \in 1..Len(snapshots) |-> snapshots[i].total_value]
        recent == Limit(LatestFirst(rows), LosingStreak)
    IN IF Greater(MaxDrawdown(values), MAX_DRAWDOWN_CRITICAL) THEN "drawdown"
       ELSE IF Len(recent) = LosingStreak /\ \A i \in 1..LosingStreak : recent[i].pnl < 0
       THEN "losing_streak"
       ELSE IF pf.cash * 10 < pf.total_value THEN "low_cash"
       ELSE "ok"

\* C30: should_pause_trading pauses for a maximum drawdown above 25 %, else for
\* five losing trades among the five most recent (never with fewer than five),
\* else for cash below 10 % of total_value, and does not pause otherwise
C30_PausePriority ==
    risk.result # None =>
        /\ risk.result[1].reason = PauseRule(risk.snapshots, risk.rows, risk.pf)
        /\ risk.result[1].should_pause = (risk.result[1].reason # "ok")

\* six trades written within one second, the first a win and the five after it
\* losses, no drawdown and enough cash: the call does not pause
C30_Witness ==
    /\ risk.result # None
    /\ Len(risk.rows) = 6
    /\ \A i \in 1..6 : risk.rows[i].timestamp = risk.rows[1].timestamp
    /\ risk.rows[1].pnl > 0
    /\ \A i \in 2..6 : risk.rows[i].pnl < 0
    /\ risk.snapshots = << >>
    /\ risk.pf.cash = 5
    /\ ~risk.result[1].should_pause

\* two snapshots written within one second, the value falling from 4 to 2: the
\* call finds no drawdown
C30_DrawdownMissed ==
    /\ risk.result # None
    /\ Len(risk.snapshots) = 2
    /\ risk.snapshots[1].timestamp = risk.snapshots[2].timestamp
    /\ risk.snapshots[1].total_value = 4
    /\ risk.snapshots[2].total_value = 2
    /\ risk.result[1].reason # "drawdown"

\* ---- C31
\* the falls (v_i - v_j) / v_i from an earlier value to a later one, and no fall
PairDrawdowns(values) ==
    { Ratio(0, 1) } \cup
    { Ratio(values[p[1]] - values[p[2]], values[p[1]]) :
        p \in { q \in (1..Len(values)) \X (1..Len(values)) :
                  q[1] <= q[2] /\ values[q[1]] > 0 } }

\* r is the largest of the fractions in S
IsGreatest(r, S) ==
    /\ \E x \in S : x.n * r.d = r.n * x.d
    /\ \A x \in S : ~Greater(x, r)

\* the total values of a history in the order its snapshots were written
WrittenValues(snapshots) == [i \in 1..Len(snapshots) |-> snapshots[i].total_value]

\* C31: the maximum drawdown computed for a model is the largest fall
\* (v_i - v_j) / v_i over all pairs i <= j of its account-value history taken
\* oldest to newest: 0 for an empty or non-decreasing history, 0.5 for
\* 100, 50, 100, with every snapshot of the history counted
C31_MaxDrawdownIsLargestFall ==
    risk.result # None =>
        IsGreatest(risk.result[1], PairDrawdowns(WrittenValues(risk.snapshots)))

\* two snapshots written within one second, the value falling from 100 to 50:
\* the drawdown computed is 0
C31_Witness ==
    /\ risk.result # None
    /\ Len(risk.snapshots) = 2
    /\ risk.snapshots[1].timestamp = risk.snapshots[2].timestamp
    /\ WrittenValues(risk.snapshots) = << 100, 50 >>
    /\ risk.result[1].n = 0

\* ---- C32
\* the rules a view and a history trigger, as stated: a position of more than
\* 30 % of total_value, average leverage above 10, more than 5 positions, a
\* negative unrealized pnl of more than 10 % of total_value, a maximum drawdown
\* of the history above 15 %; the two shares are ratios to total_value, taken
\* as not above their threshold when total_value is not positive
TriggeredWeights(snapshots, pf) ==
    LET ps == pf.positions
        drawdown == MaxDrawdown(WrittenValues(snapshots))
    IN << IF \E i \in 1..Len(ps) :
                /\ pf.total_value > 0
                /\ ps[i].quantity * ps[i].avg_price * 10 > 3 * pf.total_value
          THEN 30 ELSE 0,
          IF ps # << >> /\ SumLeverage(ps) > 10 * Len(ps) THEN 25 ELSE 0,
          IF Len(ps) > 5 THEN 15 ELSE 0,
          IF /\ pf.unrealized_pnl < 0
             /\ pf.total_value > 0
             /\ -pf.unrealized_pnl * 10 > pf.total_value
          THEN 20 ELSE 0,
          IF drawdown.n * 20 > 3 * drawdown.d THEN 30 ELSE 0 >>

\* C32: the risk score is the sum of the weights of the triggered rules (30
\* concentration, 25 leverage, 15 position count, 20 unrealized loss, 30
\* drawdown) capped at 100; the level is high from 70, medium from 40 and low
\* below; there is one warning per triggered rule
C32_ScoreIsCappedSumOfRules ==
    risk.result # None =>
        LET ws == TriggeredWeights(risk.snapshots, risk.pf)
            points == sum(ws)
            got == risk.result[1]
        IN /\ got.score = (IF points < 100 THEN points ELSE 100)
           /\ (got.level = "high") = (got.score >= 70)
           /\ (got.level = "medium") = (got.score >= 40 /\ got.score < 70)
           /\ (got.level = "low") = (got.score < 40)
           /\ Len(got.warnings) = Cardinality({ i \in 1..Len(ws) : ws[i] > 0 })

\* a view without positions or loss and a history of two snapshots written
\* within one second, the value falling from 4 to 2: the score is 0
C32_Witness ==
    /\ risk.result # None
    /\ risk.pf.positions = << >>
    /\ risk.pf.total_value = 100
    /\ risk.pf.unrealized_pnl = 0
    /\ Len(risk.snapshots) = 2
    /\ risk.snapshots[1].timestamp = risk.snapshots[2].timestamp
    /\ WrittenValues(risk.snapshots) = << 4, 2 >>
    /\ risk.result[1].score = 0

\* every rule triggers: the points add up to 120 and the score is 100
C32_Capped ==
    /\ risk.result # None
    /\ Len(risk.result[1].warnings) = 5
    /\ risk.result[1].score = 100
    /\ risk.result[1].level = "high"

\* ---- C33
\* the changes the RSI is taken over: the last RsiWindow of a price list
LastChanges(prices) ==
    LastOf([i \in 1..(Len(prices) - 1) |-> prices[i + 1] - prices[i]], RsiWindow)

\* 100 - 100 / (1 + avgGain / avgLoss) over changes with a loss among them
RsiFormula(changes) ==
    LET n == Len(changes)
        avgGain == Ratio(sum([i \in 1..n |-> IF changes[i] > 0 THEN changes[i] ELSE 0]), n)
        avgLoss == Ratio(sum([i \in 1..n |-> IF changes[i] < 0 THEN -changes[i] ELSE 0]), n)
    IN Minus(Ratio(100, 1),
             Over(Ratio(100, 1), Plus(Ratio(1, 1), Over(avgGain, avgLoss))))

\* two fractions of the same value
SameRatio(a, b) == a.n * b.d = b.n * a.d

\* C33: from fewer than 14 historical points no indicator set is produced; from
\* 14 or more, RSI14 is exactly 100 when the last 14 price changes hold no loss,
\* and 100 - 100 / (1 + avgGain / avgLoss) over the last 14 changes otherwise
C33_RsiOverLastFourteenChanges ==
    indicator.result # None =>
        LET historical == indicator.historical
            prices == [i \in 1..Len(historical) |-> historical[i].price]
            changes == LastChanges(prices)
            got == indicator.result[1]
        IN IF Len(historical) < 14 THEN got = << >>
           ELSE /\ got # << >>
                /\ IF \A i \in 1..Len(changes) : changes[i] >= 0
                   THEN got.rsi_14 = Ratio(100, 1)
                   ELSE SameRatio(got.rsi_14, RsiFormula(changes))

\* a history of 16 points whose first change is a fall and whose last 14 changes
\* are rises: RSI14 is 100
C33_Witness ==
    /\ indicator.result # None
    /\ Len(indicator.historical) = 16
    /\ indicator.historical[2].price < indicator.historical[1].price
    /\ \A i \in 2..15 : indicator.historical[i + 1].price > indicator.historical[i].price
    /\ indicator.result[1].rsi_14 = Ratio(100, 1)

\* a history of 13 points: the result is empty
C33_TooShort ==
    /\ indicator.result # None
    /\ Len(indicator.historical) = 13
    /\ indicator.result[1] = << >>

\* a history with a fall among its last 14 changes
C33_WithLoss ==
    /\ indicator.result # None
    /\ Len(indicator.historical) = 15
    /\ indicator.historical[15].price < indicator.historical[14].price
    /\ indicator.result[1].rsi_14 # Ratio(100, 1)

\* ---- C34
\* the trades among the first k of the log that carry one of the signals for a
\* position of model m in coin on side
TradesOf(k, m, coin, side, signals) ==
    { i \in 1..k : /\ trades[i].model_id = m
                   /\ trades[i].coin = coin
                   /\ trades[i].side = side
                   /\ trades[i].signal \in signals }

\* C34: a position is closed at most once: at every point of the trade log the
\* closing trades (auto_close, close_position) of a model, coin and side are no
\* more than the entry trades before them; a position that EvaluateExits closed
\* is not closed again by a close_position decision of the same cycle
C34_ClosedAtMostOnce ==
    \A k \in 1..Len(trades) :
        LET t == trades[k]
        IN t.signal \in {"auto_close", "close_position"} =>
              Cardinality(TradesOf(k, t.model_id, t.coin, t.side,
                                   {"auto_close", "close_position"}))
                  <= Cardinality(TradesOf(k, t.model_id, t.coin, t.side, EntrySignals))

\* a cycle is over whose exit check closed a position and whose close_position
\* decision for the same coin closed it again: the log holds one entry and two
\* closing trades of the same pnl
C34_Witness ==
    /\ pc["loop"] = "done"
    /\ result["loop"] = "success"
    /\ Len(stop_results["loop"]) = 1
    /\ Len(trades) = 3
    /\ trades[1].signal \in EntrySignals
    /\ trades[2].signal = "auto_close"
    /\ trades[3].signal = "close_position"
    /\ trades[2].pnl # 0
    /\ trades[3].pnl = trades[2].pnl
    /\ \A i \in 2..3 : /\ trades[i].coin = trades[1].coin
                       /\ trades[i].side = trades[1].side
                       /\ trades[i].model_id = trades[1].model_id
    /\ model["loop"] \in DOMAIN models

\* ---- C35
\* the cash of the ledger of model m: initial_capital + realized_pnl - margin_used
LedgerCash(tp, tt, m, current_prices) == get_portfolio(models, tp, tt, m, current_prices).cash

\* C35: entries never overdraw cash: an entry that is applied while the cash of
\* the ledger is not negative leaves it not negative, so that from a cash >= 0
\* at the start of the execution of the decisions the cash stays >= 0 after each
\* applied entry
C35_EntriesNeverOverdraw ==
    [][ \A th \in Threads :
          (/\ ExecutesPair(th)
           /\ pc'[th] = "exec_trade"
           /\ pendingTrade'[th].signal \in EntrySignals
           /\ model[th] \in DOMAIN models
           /\ LedgerCash(portfolios, trades, model[th], market_state[th]) >= 0) =>
             LedgerCash(portfolios', trades', model[th], market_state[th]) >= 0
      ]_vars

\* a cycle that began with an empty ledger applied two entries and no close:
\* the cash of the ledger is negative
C35_Witness ==
    /\ pc["loop"] = "done"
    /\ result["loop"] = "success"
    /\ model["loop"] \in DOMAIN models
    /\ stop_results["loop"] = << >>
    /\ Len(trades) = 2
    /\ \A i \in 1..2 : trades[i].signal \in EntrySignals /\ trades[i].model_id = model["loop"]
    /\ Len(execution_results["loop"]) = 2
    /\ LedgerCash(portfolios, trades, model["loop"], market_state["loop"]) < 0

\* ---- C36
\* the trades of the log for the position of model m in coin on side
KeyTrades(m, coin, side) ==
    SelectSeq(trades, LAMBDA t : t.model_id = m /\ t.coin = coin /\ t.side = side)

\* the log's last word on that position is an entry
LastIsEntry(m, coin, side) ==
    LET ts == KeyTrades(m, coin, side)
    IN ts # << >> /\ ts[Len(ts)].signal \in EntrySignals

Stored(m, coin, side) ==
    \E i \in 1..Len(portfolios) :
        /\ portfolios[i].model_id = m
        /\ portfolios[i].coin = coin
        /\ portfolios[i].side = side

\* no running thread stands between a position write and its trade
Settled == stopped \/ \A th \in Threads : pc[th] \notin {"exit_trade", "exec_trade"}

\* C36: positions and trade log change together: in every state the store is
\* left in, also by a process that stops between two store calls, a position is
\* stored exactly when the latest trade of the log for it is its entry, so that
\* no stored position lacks its opening trade and no position is gone without
\* the closing trade that books its pnl
C36_PositionsMatchTradeLog ==
    Settled =>
        \A m \in DOMAIN models, coin \in SUPPORTED_COINS, side \in {"long", "short"} :
            Stored(m, coin, side) = LastIsEntry(m, coin, side)

\* the process ended after update_position and before add_trade: the store holds
\* a position and the log no trade
C36_Witness ==
    /\ stopped
    /\ pc["loop"] = "exec_trade"
    /\ pendingTrade["loop"].signal \in EntrySignals
    /\ Len(portfolios) = 1
    /\ trades = << >>

\* ---- C37
\* the cycle of th has changed positions: an exit was applied, or an entry or a
\* close was at least begun
Mutated(th) ==
    \/ stop_results[th] # << >>
    \/ \E k \in 1..Len(execution_results[th]) :
          execution_results[th][k].kind \in EntrySignals \cup {"close_position"}
    \/ pendingTrade[th] # NoTrade

\* C37: a shutdown lets the cycle in flight finish its transition: the process
\* is never stopped with a cycle between a position write and its trade, or
\* between its position writes and its snapshot
C37_ShutdownFinishesTransition ==
    stopped =>
        \A th \in Threads :
            /\ pendingTrade[th] = NoTrade
            /\ Mutated(th) => pc[th] \in {"idle", "done"}

\* the process ended while a close_position decision had deleted the position
\* and its trade was still to be written
C37_Witness ==
    /\ stopped
    /\ pc["loop"] = "exec_trade"
    /\ pendingTrade["loop"].signal = "close_position"
    /\ pendingTrade["loop"].pnl # 0
    /\ portfolios = << >>
    /\ Len(trades) = 1

\* ---- C38
\* rows of a table with the time of their write, one second apart
Stamped(rows) == [i \in 1..Len(rows) |-> [rows[i] EXCEPT !.timestamp = i]]

\* what should_pause_trading answers for model m on the store tp, tt, ta
PauseAdvice(tp, tt, ta, m, current_prices) ==
    should_pause_trading(
        Stamped([i \in 1..Len(OfModel(ta, m)) |->
                    [total_value |-> OfModel(ta, m)[i].total_value, timestamp |-> 0]]),
        Stamped([i \in 1..Len(OfModel(tt, m)) |->
                    [pnl |-> OfModel(tt, m)[i].pnl, timestamp |-> 0]]),
        get_portfolio(models, tp, tt, m, current_prices))

\* C38: while should_pause_trading holds for a model, a cycle of that model
\* applies no buy_to_enter and no sell_to_enter decision
C38_NoEntryWhilePaused ==
    [][ \A th \in Threads :
          (/\ ExecutesPair(th)
           /\ model[th] \in DOMAIN models
           /\ PauseAdvice(portfolios, trades, account_values, model[th],
                          market_state[th]).should_pause) =>
             ~(pc'[th] = "exec_trade" /\ pendingTrade'[th].signal \in EntrySignals)
      ]_vars

\* the first decision of a cycle, an entry, has just been written for a model
\* whose account value has fallen by more than 25 % from its peak
C38_Witness ==
    /\ pc["loop"] = "exec_trade"
    /\ pendingTrade["loop"].signal \in EntrySignals
    /\ model["loop"] \in DOMAIN models
    /\ stop_results["loop"] = << >>
    /\ execution_results["loop"] = << >>
    /\ LET before == SelectSeq(portfolios,
                               LAMBDA r : ~(/\ r.model_id = model["loop"]
                                            /\ r.coin = pendingTrade["loop"].coin
                                            /\ r.side = pendingTrade["loop"].side))
           advice == PauseAdvice(before, trades, account_values, model["loop"],
                                 market_state["loop"])
       IN /\ Len(before) = Len(portfolios) - 1
          /\ advice.should_pause
          /\ advice.reason = "drawdown"


\* ---- C39
\* C39: a cycle whose price map is empty changes no position and appends no
\* trade, whatever the provider returns, and, once the store has answered its
\* first read, does not end as failed
C39_EmptyPricesNoDecision ==
    [][ \A th \in Threads :
          (/\ InCycle(th)
           /\ market_state[th] = << >>
           /\ pc[th] # "portfolio"
           /\ ~dbLocked
           /\ model[th] \in DOMAIN models
           /\ models' = models) =>
             /\ portfolios' = portfolios
             /\ trades' = trades
             /\ result'[th] # "failed"
      ]_vars

\* a cycle with an empty price map has run to its end over a decision map that
\* asks for an entry or a close
C39_Witness ==
    /\ pc["loop"] = "done"
    /\ market_state["loop"] = << >>
    /\ \E k \in 1..Len(decisions["loop"]) :
          Lower(decisions["loop"][k].d.signal) \in EntrySignals \cup {"close_position"}
    /\ Len(execution_results["loop"]) = Len(decisions["loop"])
    /\ result["loop"] = "success"


\* ---- C40
\* the step is one of the cycle thread th runs: no other thread moves
CycleStepOf(th) ==
    /\ InCycle(th)
    /\ \A o \in Threads \ {th} :
          /\ pc'[o] = pc[o]
          /\ exitIdx'[o] = exitIdx[o]
          /\ decIdx'[o] = decIdx[o]
          /\ decisions'[o] = decisions[o]

\* C40: a step of a trading cycle of model A leaves the positions, the trade
\* log and the account snapshots of every other model B as they were, also
\* when another thread runs a cycle of B at the same time
C40_ModelIsolation ==
    [][ \A th \in Threads : CycleStepOf(th) =>
          \A b \in DOMAIN models \ {model[th]} :
             /\ OfModel(portfolios', b) = OfModel(portfolios, b)
             /\ OfModel(trades', b) = OfModel(trades, b)
             /\ OfModel(account_values', b) = OfModel(account_values, b)
      ]_vars

\* a cycle of model 2 has closed its BTC long while the other thread is in a
\* cycle of model 1, whose BTC long is still held
C40_Witness ==
    /\ model["api"] = 2
    /\ model["loop"] = 1
    /\ InCycle("loop")
    /\ pc["api"] = "done"
    /\ \A i \in 1..Len(portfolios) : portfolios[i].model_id # 2
    /\ \E i \in 1..Len(portfolios) :
          portfolios[i].model_id = 1 /\ portfolios[i].coin = "BTC"
    /\ \E i \in 1..Len(trades) :
          trades[i].model_id = 2 /\ trades[i].signal = "close_position"

====
